---- MODULE Spec2Model ----
(***************************************************************************)
(* Verification model of nitro-hotupdate-cli: the manifest signer and      *)
(* verifier (DigitalSignature), the configuration loader (ConfigLoader),   *)
(* the per-platform build orchestrator (HotUpdateBuilder), the CLI         *)
(* commands that drive it, and the config-file entry point buildHotUpdate. *)
(*                                                                         *)
(* Three specifications share the module:                                  *)
(*   SpecSig  key generation, signManifest, verifyManifest,                *)
(*            verifySignature over a stored manifest file                  *)
(*   Spec     the CLI commands, loadConfig and buildAllPlatforms           *)
(*   SpecHU   buildHotUpdate                                               *)
(***************************************************************************)
EXTENDS Integers, Sequences, FiniteSets, TLC

VARIABLES
    \* ---- signature subsystem (config-loader.ts, class DigitalSignature)
    manifestFile,   \* content of manifest.json on disk
    keyStore,       \* key files on disk: path -> PEM text
    nKeys,          \* number of key pairs generated so far
    sigOp,          \* the last signature operation and what it returned
    signedBy,       \* history: id of the key of the last signManifest ("" if none)
    tampered,       \* history: which part of the stored manifest was changed after signing
    \* ---- CLI, ConfigLoader and HotUpdateBuilder
    cmd,            \* the CLI command being run
    opts,           \* its options (dryRun, ...)
    env,            \* the configuration file and the project on disk
    pc,             \* position of the command's action callback
    loadError,      \* the error loadConfig threw (kind "" when none)
    platforms,      \* config.platforms handed to the orchestrator
    pidx,           \* index of the platform being built
    trail,          \* stages executed for the current platform
    results,        \* BuildResult[] of buildAllPlatforms
    faults,         \* history: per result, the stage that failed ("" if none)
    built,          \* platforms for which the bundler was started
    spawned,        \* the BundleConfig of each bundler run, in order
    artifacts,      \* platforms whose archive exists on disk
    fsWrites,       \* every path created or written by the command
    exitCode,       \* process exit status (-1 while running)
    \* ---- buildHotUpdate (part_002)
    hu,             \* state of one buildHotUpdate call
    \* ---- more of the commands' state
    buildConfig,    \* the BuildConfig handed to HotUpdateBuilder
    manifests,      \* the manifest.json files written, in order
    warned,         \* history: per result, whether the asset check warned
    \* ---- PackageManager (package-manager.ts), BundleBuilder (part_001)
    pkg,            \* state of one createZipPackage call
    bb              \* state of one copyAssets / generateManifest call

sigVars == <<manifestFile, keyStore, nKeys, sigOp, signedBy, tampered>>
cliVars == <<cmd, opts, env, pc, loadError, platforms, pidx, trail, results,
             faults, built, spawned, artifacts, fsWrites, exitCode,
             buildConfig, manifests, warned>>
libVars == <<pkg, bb>>
vars == <<sigVars, cliVars, hu, libVars>>

----------------------------------------------------------------------------
(* Bounds of the model *)

MaxAssets == 1          \* entries of manifest.assets
MaxKeys == 2            \* key pairs generated in one behaviour
MaxPlatforms == 2       \* length of config.platforms
MaxPackages == 2        \* length of the list given to generatePackageManifest

----------------------------------------------------------------------------
(* Text.  A string is a sequence of tokens; a token is a run of characters   *)
(* c, or an opaque blob (a base64 payload, a PEM body) whose content is p.   *)

T(c) == [c |-> c, p |-> <<>>]
S(c) == <<T(c)>>
Blob(c, p) == <<[c |-> c, p |-> p]>>

RECURSIVE Flat(_)
Flat(ss) == IF ss = <<>> THEN <<>> ELSE Head(ss) \o Flat(Tail(ss))

\* String.prototype.split(sep): the pieces between occurrences of sep
RECURSIVE SplitFrom(_, _, _)
SplitFrom(s, sep, cur) ==
    IF s = <<>> THEN <<cur>>
    ELSE IF Head(s).c = sep /\ Head(s).p = <<>>
         THEN <<cur>> \o SplitFrom(Tail(s), sep, <<>>)
         ELSE SplitFrom(Tail(s), sep, Append(cur, Head(s)))

split(s, sep) == SplitFrom(s, sep, <<>>)

\* split(sep, limit): at most limit pieces, the rest is discarded
splitLimit(s, sep, limit) ==
    LET all == split(s, sep)
    IN  IF Len(all) <= limit THEN all ELSE SubSeq(all, 1, limit)

----------------------------------------------------------------------------
(* JSON values.  t is the kind, s the text of a string or number, kids the  *)
(* members of an object (in insertion order) or the elements of an array    *)
(* (with k = "").  A file holding JSON is represented by its parse tree:    *)
(* writeJSON followed by JSON.parse returns the tree that was written.      *)

Str(s) == [t |-> "str", s |-> s, kids |-> <<>>]
Num(s) == [t |-> "num", s |-> s, kids |-> <<>>]
Obj(kids) == [t |-> "obj", s |-> <<>>, kids |-> kids]
Arr(kids) == [t |-> "arr", s |-> <<>>, kids |-> kids]
KV(k, v) == [k |-> k, v |-> v]
Undefined == [t |-> "undefined", s |-> <<>>, kids |-> <<>>]
Null == [t |-> "null", s |-> <<>>, kids |-> <<>>]
Bool(b) == [t |-> "bool", s |-> IF b THEN S("true") ELSE S("false"), kids |-> <<>>]

\* Object.keys(o): own keys in insertion order
ObjectKeys(o) == [i \in DOMAIN o.kids |-> o.kids[i].k]
KeySet(o) == {o.kids[i].k : i \in DOMAIN o.kids}
HasKey(o, k) == k \in KeySet(o)
\* o[k]
Get(o, k) ==
    IF HasKey(o, k)
    THEN o.kids[CHOOSE i \in DOMAIN o.kids : o.kids[i].k = k].v
    ELSE Undefined
\* delete o[k]
Delete(o, k) == Obj(SelectSeq(o.kids, LAMBDA e : e.k # k))
\* o[k] = v : replaces in place, or appends a new member
Set(o, k, v) ==
    IF HasKey(o, k)
    THEN Obj([i \in DOMAIN o.kids |->
                IF o.kids[i].k = k THEN KV(k, v) ELSE o.kids[i]])
    ELSE Obj(Append(o.kids, KV(k, v)))
\* JavaScript truthiness of a value: !v
Falsy(v) ==
    \/ v.t = "undefined"
    \/ v.t = "str" /\ v.s = <<>>
    \/ v.t = "num" /\ v.s = S("0")
    \/ v.t = "bool" /\ v.s = S("false")

\* The key names of the model, in the order Array.prototype.sort() gives
\* them (UTF-16 code unit order).
KeyOrder == <<"assets", "builder", "metadata", "publicKey", "sha256",
              "signature", "signatureTimestamp", "url", "version">>
\* a sort that leaves the keys in insertion order
sort_insertionOrder(keys) == keys

\* keys.sort()
sort(keys) ==
    SelectSeq(KeyOrder, LAMBDA k : \E i \in DOMAIN keys : keys[i] = k)

RECURSIVE JoinComma(_)
JoinComma(parts) ==
    IF parts = <<>> THEN <<>>
    ELSE IF Len(parts) = 1 THEN parts[1]
    ELSE parts[1] \o S(",") \o JoinComma(Tail(parts))

\* JSON.stringify(value, replacer) with an array replacer: the array is the
\* property list, and it selects (and orders) the members of EVERY object
\* of the value, nested ones included; array elements are all kept.
RECURSIVE JSONstringify(_, _)
JSONstringify(v, replacer) ==
    CASE v.t = "str" -> S("\"") \o v.s \o S("\"")
      [] v.t = "num" -> v.s
      [] v.t = "arr" ->
            S("[") \o JoinComma([i \in DOMAIN v.kids |->
                          JSONstringify(v.kids[i].v, replacer)]) \o S("]")
      [] v.t = "obj" ->
            LET listed == SelectSeq(replacer, LAMBDA k : HasKey(v, k))
            IN  S("{") \o JoinComma([i \in DOMAIN listed |->
                          S("\"") \o S(listed[i]) \o S("\"") \o S(":")
                          \o JSONstringify(Get(v, listed[i]), replacer)])
                \o S("}")
      [] OTHER -> S("null")

\* signManifest 484-493, verifyManifest 555-566: strip the signature fields,
\* then JSON.stringify(manifest, Object.keys(manifest).sort())
stripSignature(manifest) ==
    Delete(Delete(Delete(manifest, "signature"), "publicKey"),
           "signatureTimestamp")
canonicalManifest(manifest) ==
    LET m == stripSignature(manifest)
    IN  JSONstringify(m, sort(ObjectKeys(m)))

----------------------------------------------------------------------------
(* node:crypto, as an ideal signature scheme.  A PEM text is one blob whose  *)
(* content is <<label, key id, key type>>; the signature of data under a     *)
(* private key is the byte string <<key id, digest name>> \o data, which     *)
(* only that key pair's public half accepts, for that digest and that data.  *)

PEM(label, id, typ) == Blob("pem", <<label, id, typ>>)
IsPEM(s) == Len(s) = 1 /\ s[1].c = "pem" /\ Len(s[1].p) = 3
IsPrivateKey(s) == IsPEM(s) /\ s[1].p[1] = "PRIVATE KEY"
\* verify() takes a public key, or a private key whose public half it derives
IsKey(s) == IsPEM(s) /\ s[1].p[1] \in {"PRIVATE KEY", "PUBLIC KEY"}
KeyId(s) == s[1].p[2]

\* crypto.getHashes(), as far as the model names digests
KnownDigests == {"SHA256", "SHA384", "SHA512"}
\* the name a one-token string spells ("" when it is not one plain token)
NameOf(s) == IF Len(s) = 1 /\ s[1].p = <<>> THEN s[1].c ELSE ""

\* the bytes of a text: update(data)
Bytes(s) == [i \in DOMAIN s |-> s[i].c]
\* Sign.sign(privateKey)
cryptoSign(hash, data, privateKey) ==
    <<KeyId(privateKey), hash>> \o Bytes(data)
\* Verify.verify(publicKey, signatureBuffer)
cryptoVerify(hash, data, publicKey, signatureBuffer) ==
    signatureBuffer = <<KeyId(publicKey), hash>> \o Bytes(data)
\* crypto.createPublicKey(crypto.createPrivateKey(privateKey)).export(spki, pem)
derivePublicKey(privateKey) ==
    PEM("PUBLIC KEY", KeyId(privateKey), privateKey[1].p[3])

\* Buffer.toString("base64")
toBase64(bytes) == Blob("b64", bytes)
\* Buffer.from(text, "base64"): never throws; characters outside the
\* base64 alphabet are skipped
fromBase64(s) ==
    Flat([i \in DOMAIN s |-> IF s[i].c = "b64" THEN s[i].p ELSE <<>>])

\* generateRSAKeyPair 329-355 / generateECDSAKeyPair 360-386
generateRSAKeyPair(id) ==
    [privateKey |-> PEM("PRIVATE KEY", id, "rsa"),
     publicKey |-> PEM("PUBLIC KEY", id, "rsa")]
generateECDSAKeyPair(id) ==
    [privateKey |-> PEM("PRIVATE KEY", id, "ec"),
     publicKey |-> PEM("PUBLIC KEY", id, "ec")]

\* The signature algorithm identifiers, as texts
RSA_SHA256 == <<T("RSA"), T("-"), T("SHA256")>>
ECDSA_SHA256 == <<T("ECDSA"), T("-"), T("SHA256")>>
Algorithms == {RSA_SHA256, ECDSA_SHA256}

\* algorithm.split("-")[1]
hashAlgorithmOf(algorithm) ==
    LET parts == split(algorithm, "-")
    IN  IF Len(parts) >= 2 THEN NameOf(parts[2]) ELSE ""

Now == S("1700000000000")     \* Date.now()

----------------------------------------------------------------------------
(* DigitalSignature.  An operation returns a record; threw says that it      *)
(* ended by throwing (a rejected promise), error carries the message kind.   *)

NoResult == [threw |-> FALSE, isValid |-> FALSE, error |-> "",
             algorithm |-> <<>>, signature |-> <<>>, publicKey |-> <<>>,
             timestamp |-> Undefined]
Throw(e) == [NoResult EXCEPT !.threw = TRUE, !.error = e]
Invalid(e) == [NoResult EXCEPT !.error = e]

\* signData with the separator between algorithm and payload left out
signData_noSeparator(algorithm, data, privateKey) ==
    LET hashAlgorithm == hashAlgorithmOf(algorithm)
    IN  IF ~(algorithm # <<>> /\ algorithm[1].c \in {"RSA", "ECDSA"})
        THEN Throw("Failed to sign data: Unsupported algorithm")
        ELSE IF hashAlgorithm \notin KnownDigests
        THEN Throw("Failed to sign data: Invalid digest")
        ELSE IF ~IsPrivateKey(privateKey)
        THEN Throw("Failed to sign data: bad private key")
        ELSE [NoResult EXCEPT
                !.signature = algorithm
                    \o toBase64(cryptoSign(hashAlgorithm, data, privateKey)),
                !.algorithm = algorithm,
                !.publicKey = derivePublicKey(privateKey),
                !.timestamp = Num(Now)]

\* signData 391-429
signData(algorithm, data, privateKey) ==
    LET hashAlgorithm == hashAlgorithmOf(algorithm)
    IN  IF ~(algorithm # <<>> /\ algorithm[1].c \in {"RSA", "ECDSA"})
        THEN Throw("Failed to sign data: Unsupported algorithm")
        ELSE IF hashAlgorithm \notin KnownDigests
        THEN Throw("Failed to sign data: Invalid digest")
        ELSE IF ~IsPrivateKey(privateKey)
        THEN Throw("Failed to sign data: bad private key")
        ELSE [NoResult EXCEPT
                !.signature = algorithm \o S(":")
                    \o toBase64(cryptoSign(hashAlgorithm, data, privateKey)),
                !.algorithm = algorithm,
                !.publicKey = derivePublicKey(privateKey),
                !.timestamp = Num(Now)]

\* verifySignature 439-462: the body of the try block
verifySignatureTry(data, signatureWithAlgorithm, publicKey) ==
    IF signatureWithAlgorithm.t # "str"
    THEN Throw("split is not a function")
    ELSE
    LET parts == splitLimit(signatureWithAlgorithm.s, ":", 2)
        algorithm == parts[1]
        signature == IF Len(parts) >= 2 THEN parts[2] ELSE <<>>
        hashAlgorithm == hashAlgorithmOf(algorithm)
    IN  IF algorithm = <<>> \/ signature = <<>>
        THEN Invalid("Invalid signature format. Expected 'ALGORITHM:SIGNATURE'")
        ELSE IF hashAlgorithm \notin KnownDigests
        THEN Throw("Invalid digest")
        ELSE IF ~IsKey(publicKey)
        THEN Throw("bad public key")
        ELSE [NoResult EXCEPT
                !.isValid = cryptoVerify(hashAlgorithm, data, publicKey,
                                         fromBase64(signature)),
                !.algorithm = algorithm,
                !.timestamp = Num(Now)]

\* a verifier without its catch block: what the try block threw escapes
catchAsInvalid_rethrow(r) == r

\* catch (error) { return { isValid: false, error: `Verification failed: ...` } }
\* (verifySignature 463-469, verifyManifest 579-585)
catchAsInvalid(r) ==
    IF r.threw THEN Invalid("Verification failed: " \o r.error) ELSE r

\* verifySignature 434-470
verifySignature(data, signatureWithAlgorithm, publicKey) ==
    catchAsInvalid(verifySignatureTry(data, signatureWithAlgorithm, publicKey))

\* A file: exists says that it can be read, json that its text parses
File(m) == [exists |-> TRUE, json |-> TRUE, m |-> m]
NoFile == [exists |-> FALSE, json |-> FALSE, m |-> Undefined]
NotJSON == [exists |-> TRUE, json |-> FALSE, m |-> Undefined]
\* fs.readFile(path, "utf8") of a key file; keys maps the existing paths
KeyFileExists(keys, path) == path \in DOMAIN keys

\* signManifest without the three deletes: earlier signature fields stay in
\* the object that is serialized and signed
signManifest_noStrip(algorithm, file, keys, privateKeyPath) ==
    LET manifest == file.m
        canonical == JSONstringify(file.m, sort(ObjectKeys(file.m)))
        r == signData(algorithm, canonical, keys[privateKeyPath])
        fail(e) == [r |-> Throw("Failed to sign manifest: " \o e), file |-> file]
    IN  IF ~file.exists THEN fail("ENOENT")
        ELSE IF ~file.json THEN fail("Unexpected token")
        ELSE IF file.m.t # "obj" THEN fail("Cannot convert undefined or null to object")
        ELSE IF ~KeyFileExists(keys, privateKeyPath) THEN fail("ENOENT")
        ELSE IF r.threw THEN fail(r.error)
        ELSE [r |-> r,
              file |-> File(Set(Set(Set(manifest,
                            "signature", Str(r.signature)),
                            "publicKey", Str(r.publicKey)),
                            "signatureTimestamp", r.timestamp))]

\* signManifest 475-522.  Returns the result and the manifest file it leaves.
signManifest(algorithm, file, keys, privateKeyPath) ==
    LET manifest == stripSignature(file.m)
        canonical == canonicalManifest(file.m)
        r == signData(algorithm, canonical, keys[privateKeyPath])
        fail(e) == [r |-> Throw("Failed to sign manifest: " \o e), file |-> file]
    IN  IF ~file.exists THEN fail("ENOENT")
        ELSE IF ~file.json THEN fail("Unexpected token")
        ELSE IF file.m.t # "obj" THEN fail("Cannot convert undefined or null to object")
        ELSE IF ~KeyFileExists(keys, privateKeyPath) THEN fail("ENOENT")
        ELSE IF r.threw THEN fail(r.error)
        ELSE [r |-> r,
              file |-> File(Set(Set(Set(manifest,
                            "signature", Str(r.signature)),
                            "publicKey", Str(r.publicKey)),
                            "signatureTimestamp", r.timestamp))]

\* the text a manifest member gives when it is used as key material
AsText(v) == IF v.t = "str" THEN v.s ELSE S("[not a string]")

\* a verifier that takes the key the manifest carries whenever it has one
verifyManifestTry_embeddedFirst(file, keys, publicKeyPath) ==
    LET manifest == file.m
        signature == Get(manifest, "signature")
        publicKey == IF ~Falsy(Get(manifest, "publicKey"))
                     THEN AsText(Get(manifest, "publicKey"))
                     ELSE keys[publicKeyPath]
        result == verifySignature(canonicalManifest(manifest), signature,
                                  publicKey)
    IN  IF ~file.exists THEN Throw("ENOENT")
        ELSE IF ~file.json THEN Throw("Unexpected token")
        ELSE IF manifest.t # "obj" THEN Throw("Cannot read properties of null")
        ELSE IF Falsy(signature)
        THEN Invalid("No signature found in manifest")
        ELSE IF Falsy(Get(manifest, "publicKey")) /\ publicKeyPath = <<>>
        THEN Invalid("No public key available for verification")
        ELSE IF Falsy(Get(manifest, "publicKey")) /\ ~KeyFileExists(keys, publicKeyPath)
        THEN Throw("ENOENT")
        ELSE [result EXCEPT !.timestamp = Get(manifest, "signatureTimestamp")]

\* verifyManifest 531-578: the body of the try block.  publicKeyPath is
\* <<>> when the optional argument is absent.
verifyManifestTry(file, keys, publicKeyPath) ==
    LET manifest == file.m
        signature == Get(manifest, "signature")
        signatureTimestamp == Get(manifest, "signatureTimestamp")
        publicKey == IF publicKeyPath # <<>> THEN keys[publicKeyPath]
                     ELSE AsText(Get(manifest, "publicKey"))
        result == verifySignature(canonicalManifest(manifest), signature,
                                  publicKey)
    IN  IF ~file.exists THEN Throw("ENOENT")
        ELSE IF ~file.json THEN Throw("Unexpected token")
        ELSE IF manifest.t # "obj" THEN Throw("Cannot read properties of null")
        ELSE IF Falsy(signature)
        THEN Invalid("No signature found in manifest")
        ELSE IF publicKeyPath # <<>> /\ ~KeyFileExists(keys, publicKeyPath)
        THEN Throw("ENOENT")
        ELSE IF publicKeyPath = <<>> /\ Falsy(Get(manifest, "publicKey"))
        THEN Invalid("No public key available for verification")
        ELSE [result EXCEPT !.timestamp = signatureTimestamp]

\* verifyManifest 527-586
verifyManifest(file, keys, publicKeyPath) ==
    catchAsInvalid(verifyManifestTry(file, keys, publicKeyPath))

\* generateAndSaveKeyPair 591-624: the two key files it writes
PrivatePath(id) == <<"private.pem", id>>
PublicPath(id) == <<"public.pem", id>>
generateAndSaveKeyPair(algorithm, id, keys) ==
    LET keyPair == IF algorithm = RSA_SHA256 THEN generateRSAKeyPair(id)
                   ELSE generateECDSAKeyPair(id)
    IN  (PrivatePath(id) :> keyPair.privateKey)
        @@ (PublicPath(id) :> keyPair.publicKey) @@ keys

----------------------------------------------------------------------------
(* The signature subsystem as a state machine: a manifest file and key      *)
(* files on disk, the DigitalSignature operations applied to them, and a    *)
(* third party who edits the stored manifest between signing and            *)
(* verification.                                                            *)

\* manifest.json as generated for a platform (section 6 of the interface:
\* version, assets[{sha256, url}], metadata{builder}), with n assets, its
\* members inserted in either order
AssetEntry == Obj(<<KV("sha256", Str(S("aa"))), KV("url", Str(S("u1")))>>)
ManifestOf(n, reversed) ==
    LET version == KV("version", Str(S("1.0.0")))
        assets == KV("assets", Arr([i \in 1..n |-> KV("", AssetEntry)]))
        metadata == KV("metadata", Obj(<<KV("builder", Str(S("nitro-hotupdate-cli")))>>))
    IN  IF reversed THEN Obj(<<metadata, assets, version>>)
        ELSE Obj(<<version, assets, metadata>>)
InitialManifests == {ManifestOf(n, rev) : n \in 0..MaxAssets, rev \in BOOLEAN}

GarbagePath == <<"garbage.pem", "0">>
MissingPath == <<"missing.pem", "0">>
InitialKeys == (GarbagePath :> S("not a key"))

\* Signature strings a verifier can be handed, by the way they are malformed
DummyPayload == toBase64(<<"0", "SHA256">>)
BadSignature(class) ==
    CASE class = "nocolon" -> Str(RSA_SHA256 \o DummyPayload)
      [] class = "emptystring" -> Str(<<>>)
      [] class = "emptyalgorithm" -> Str(S(":") \o DummyPayload)
      [] class = "emptypayload" -> Str(RSA_SHA256 \o S(":"))
      [] class = "unknownhash" -> Str(<<T("RSA"), T("-"), T("NOHASH"), T(":")>> \o DummyPayload)
      [] class = "nohashpart" -> Str(<<T("RSA"), T(":")>> \o DummyPayload)
      [] class = "nonbase64" -> Str(RSA_SHA256 \o S(":") \o S("!!!"))
      [] class = "notastring" -> Num(S("5"))
BadSignatureClasses == {"nocolon", "emptystring", "emptyalgorithm",
                        "emptypayload", "unknownhash", "nohashpart",
                        "nonbase64", "notastring"}

\* out: the console lines of signature generate-keys and signature sign
NoOp == [op |-> "none", input |-> "", key |-> "", r |-> NoResult, out |-> <<>>]

\* the path of a key file as text
PathText(path) == <<T("keys/"), T(path[2]), T("_"), T(path[1])>>

\* a log that prints the generated private key instead of its path
keyPairLog_printsKey(algorithm, privateKeyPath, publicKeyPath, keys) ==
    <<S("Generated ") \o algorithm \o S(" key pair:"),
      S("   Private key: ") \o keys[privateKeyPath],
      S("   Public key: ") \o PathText(publicKeyPath)>>

\* generateAndSaveKeyPair 619-621: what it prints after writing the files
keyPairLog(algorithm, privateKeyPath, publicKeyPath, keys) ==
    <<S("Generated ") \o algorithm \o S(" key pair:"),
      S("   Private key: ") \o PathText(privateKeyPath),
      S("   Public key: ") \o PathText(publicKeyPath)>>

\* signature generate-keys, index.ts 111-119 (keySize is not followed)
generateKeysOutput(algorithm, privateKeyPath, publicKeyPath) ==
    <<S("Key pair generated successfully!"),
      S("   Algorithm: ") \o algorithm,
      S("   Private key: ") \o PathText(privateKeyPath),
      S("   Public key: ") \o PathText(publicKeyPath),
      S("   - Keep your private key secure and never share it")>>

\* String.prototype.substring(0, 50) of a signature string: the algorithm,
\* the separator and the first bytes of the payload
substring50(s) ==
    [i \in DOMAIN s |->
        IF s[i].p = <<>> THEN s[i]
        ELSE [s[i] EXCEPT !.p = SubSeq(s[i].p, 1, IF Len(s[i].p) < 2 THEN Len(s[i].p) ELSE 2)]]

\* signManifest 512-515 and signature sign, index.ts 141-147: the lines
\* printed for a result, or the error printed by the command's catch
signOutput(r) ==
    IF r.threw THEN <<S("Failed to sign manifest: ") \o <<T(r.error)>> >>
    ELSE <<S("Manifest signed with ") \o r.algorithm,
           S("Signature: ") \o substring50(r.signature),
           S("Manifest signed successfully!"),
           S("   Algorithm: ") \o r.algorithm,
           S("   Signature: ") \o substring50(r.signature),
           S("   Timestamp: ") \o r.timestamp.s>>

SigIdle ==
    /\ manifestFile = NoFile
    /\ keyStore = InitialKeys
    /\ nKeys = 0
    /\ sigOp = NoOp
    /\ signedBy = ""
    /\ tampered = ""

\* A behaviour follows the files up to the verification under study; the
\* signature operations leave the build commands' state alone.
Verified == sigOp.op \in {"verifyManifest", "signThenVerify", "verifySignature"}
SigStep == ~Verified /\ UNCHANGED <<cliVars, hu, libVars>>

\* signature generate-keys (index.ts 98-125)
GenerateKeys(algorithm) ==
    /\ SigStep
    /\ nKeys < MaxKeys
    /\ nKeys' = nKeys + 1
    /\ keyStore' = generateAndSaveKeyPair(algorithm, ToString(nKeys + 1), keyStore)
    /\ sigOp' = [NoOp EXCEPT !.op = "generateKeys",
            !.out = keyPairLog(algorithm, PrivatePath(ToString(nKeys + 1)),
                               PublicPath(ToString(nKeys + 1)), keyStore')
                    \o generateKeysOutput(algorithm, PrivatePath(ToString(nKeys + 1)),
                                          PublicPath(ToString(nKeys + 1)))]
    /\ UNCHANGED <<manifestFile, signedBy, tampered>>

\* signature sign (index.ts 133-149): signManifest on the stored manifest;
\* sigOp.input keeps the key id of the signature the file carried before
SignManifest(algorithm, privateKeyPath) ==
    LET out == signManifest(algorithm, manifestFile, keyStore, privateKeyPath)
    IN  /\ SigStep
        /\ tampered = ""
        /\ manifestFile' = out.file
        /\ sigOp' = [op |-> "signManifest", input |-> signedBy, key |-> "", r |-> out.r,
                     out |-> signOutput(out.r)]
        /\ signedBy' = IF out.r.threw THEN signedBy ELSE KeyId(keyStore[privateKeyPath])
        /\ tampered' = IF out.r.threw THEN tampered ELSE ""
        /\ UNCHANGED <<keyStore, nKeys>>

\* A third party changes the value of one field of the signed manifest.
TamperedManifest(m, where) ==
    CASE where = "top" -> Set(m, "version", Str(S("9.9.9")))
      [] where = "metadata" ->
            Set(m, "metadata", Set(Get(m, "metadata"), "builder", Str(S("evil"))))
      [] where = "asset.sha256" ->
            LET a == Get(m, "assets")
            IN  Set(m, "assets", Arr([a.kids EXCEPT ![1] =
                    KV("", Set(a.kids[1].v, "sha256", Str(S("ee"))))]))
      [] where = "asset.url" ->
            LET a == Get(m, "assets")
            IN  Set(m, "assets", Arr([a.kids EXCEPT ![1] =
                    KV("", Set(a.kids[1].v, "url", Str(S("http://evil"))))]))
TamperTargets == {"top", "metadata", "asset.sha256", "asset.url"}
FieldTampered == tampered \in TamperTargets

Tamper(where) ==
    /\ SigStep
    /\ signedBy # "" /\ tampered = ""
    /\ manifestFile.exists /\ manifestFile.json
    /\ where \in {"asset.sha256", "asset.url"} => Get(manifestFile.m, "assets").kids # <<>>
    /\ manifestFile' = File(TamperedManifest(manifestFile.m, where))
    /\ tampered' = where
    /\ sigOp' = [NoOp EXCEPT !.op = "tamper"]
    /\ UNCHANGED <<keyStore, nKeys, signedBy>>

\* A third party with a key pair of their own changes the manifest and signs
\* it again: content, signature and embedded public key are all replaced.
Resign(algorithm, privateKeyPath) ==
    LET changed == File(TamperedManifest(manifestFile.m, "top"))
        out == signManifest(algorithm, changed, keyStore, privateKeyPath)
    IN  /\ SigStep
        /\ signedBy # "" /\ tampered = ""
        /\ manifestFile.exists /\ manifestFile.json
        /\ KeyFileExists(keyStore, privateKeyPath)
        /\ IsPrivateKey(keyStore[privateKeyPath])
        /\ KeyId(keyStore[privateKeyPath]) # signedBy
        /\ ~out.r.threw
        /\ manifestFile' = out.file
        /\ tampered' = "resigned"
        /\ sigOp' = [NoOp EXCEPT !.op = "resign"]
        /\ UNCHANGED <<keyStore, nKeys, signedBy>>

\* A third party replaces the algorithm label in front of an RSA-SHA256
\* signature by another label that ends in -SHA256; the payload and the
\* rest of the manifest stay as signed.
OtherLabels == {ECDSA_SHA256, <<T("FOO"), T("-"), T("SHA256")>>}
Relabelled(m, label) ==
    LET parts == splitLimit(Get(m, "signature").s, ":", 2)
    IN  Set(m, "signature", Str(label \o S(":") \o parts[2]))
Relabel(label) ==
    /\ SigStep
    /\ signedBy # "" /\ tampered = ""
    /\ manifestFile.exists /\ manifestFile.json
    /\ splitLimit(Get(manifestFile.m, "signature").s, ":", 2)[1] = RSA_SHA256
    /\ manifestFile' = File(Relabelled(manifestFile.m, label))
    /\ tampered' = "relabelled"
    /\ sigOp' = [NoOp EXCEPT !.op = "relabel"]
    /\ UNCHANGED <<keyStore, nKeys, signedBy>>

\* The same manifest written again by a serializer that emits the members
\* of every object in the opposite order: same values, other insertion order.
RECURSIVE Reordered(_)
Reverse(seq) == [i \in DOMAIN seq |-> seq[Len(seq) + 1 - i]]
Reordered(v) ==
    CASE v.t = "obj" ->
            Obj(Reverse([i \in DOMAIN v.kids |->
                            KV(v.kids[i].k, Reordered(v.kids[i].v))]))
      [] v.t = "arr" ->
            Arr([i \in DOMAIN v.kids |-> KV("", Reordered(v.kids[i].v))])
      [] OTHER -> v
Reorder ==
    /\ SigStep
    /\ signedBy # "" /\ tampered = ""
    /\ manifestFile.exists /\ manifestFile.json
    /\ manifestFile' = File(Reordered(manifestFile.m))
    /\ tampered' = "order"
    /\ sigOp' = [NoOp EXCEPT !.op = "reorder"]
    /\ UNCHANGED <<keyStore, nKeys, signedBy>>

\* The stored file is replaced by something a verifier must reject.
Damaged(file, how) ==
    CASE how = "unreadable" -> NoFile
      [] how = "notjson" -> NotJSON
      [] how = "null" -> File([t |-> "null", s |-> <<>>, kids |-> <<>>])
      [] how = "nosignature" -> File(Delete(file.m, "signature"))
      [] how = "nopublickey" -> File(Delete(file.m, "publicKey"))
      [] how = "badpublickey" -> File(Set(file.m, "publicKey", Str(S("not a key"))))
      [] OTHER -> File(Set(file.m, "signature", BadSignature(how)))
DamageKinds == {"unreadable", "notjson", "null", "nosignature", "nopublickey",
                "badpublickey"} \cup BadSignatureClasses

Damage(how) ==
    /\ SigStep
    /\ tampered = ""
    /\ manifestFile.exists /\ manifestFile.json /\ manifestFile.m.t = "obj"
    /\ manifestFile' = Damaged(manifestFile, how)
    /\ tampered' = how
    /\ sigOp' = [NoOp EXCEPT !.op = "damage"]
    /\ UNCHANGED <<keyStore, nKeys, signedBy>>

\* signature verify (index.ts 160-185): verifyManifest on the stored manifest,
\* with the embedded public key (<<>>) or an external key file
VerifyManifest(publicKeyPath) ==
    /\ SigStep
    /\ sigOp' = [op |-> "verifyManifest",
                 input |-> IF tampered = "" /\ signedBy = "" THEN "unsigned" ELSE tampered,
                 key |-> IF publicKeyPath = <<>> THEN "embedded"
                         ELSE IF publicKeyPath \in DOMAIN keyStore /\ IsKey(keyStore[publicKeyPath])
                         THEN KeyId(keyStore[publicKeyPath]) ELSE "bad",
                 r |-> verifyManifest(manifestFile, keyStore, publicKeyPath), out |-> <<>>]
    /\ UNCHANGED <<manifestFile, keyStore, nKeys, signedBy, tampered>>

\* signData followed by verifySignature on the canonical bytes of a manifest,
\* signing with key pair id and verifying with the public key of pair vid
SignThenVerify(algorithm, id, vid) ==
    LET data == canonicalManifest(manifestFile.m)
        signed == signData(algorithm, data, keyStore[PrivatePath(id)])
    IN  /\ SigStep
        /\ signedBy = "" /\ tampered = ""
        /\ PrivatePath(id) \in DOMAIN keyStore /\ PublicPath(vid) \in DOMAIN keyStore
        /\ ~signed.threw
        /\ sigOp' = [op |-> "signThenVerify",
                     input |-> IF id = vid THEN "" ELSE "wrongkey",
                     key |-> vid,
                     r |-> verifySignature(data, Str(signed.signature),
                                           keyStore[PublicPath(vid)]), out |-> <<>>]
        /\ UNCHANGED <<manifestFile, keyStore, nKeys, signedBy, tampered>>

\* verifySignature on a malformed signature string or a malformed key
VerifyBadSignature(class, keyPath) ==
    /\ SigStep
    /\ signedBy = "" /\ tampered = ""
    /\ keyPath \in DOMAIN keyStore
    /\ sigOp' = [op |-> "verifySignature", input |-> class,
                 key |-> IF IsKey(keyStore[keyPath]) THEN KeyId(keyStore[keyPath]) ELSE "bad",
                 r |-> verifySignature(S("data"), BadSignature(class), keyStore[keyPath]), out |-> <<>>]
    /\ UNCHANGED <<manifestFile, keyStore, nKeys, signedBy, tampered>>

----------------------------------------------------------------------------
(* ConfigLoader (config-loader.ts 56-287).  env is what is on disk: the      *)
(* configuration file and the project it names.                             *)

ConfigFile == "hotupdate.config.json"
ProjectPath == "/work/app"
SupportedPlatforms == {"ios", "android"}
DefaultPlatforms == <<"ios", "android">>
\* semver.valid(text) holds for these texts
ValidVersions == {S("1.2.3"), S("1.0.0")}
semverValid(v) == v.t = "str" /\ v.s \in ValidVersions

NoError == [kind |-> "", value |-> ""]
Error(kind, value) == [kind |-> kind, value |-> value]
\* the text of a configuration value, as it appears in a message
Shown(v) == IF v.t = "str" /\ Len(v.s) = 1 THEN v.s[1].c ELSE ""

\* signature: undefined
NoSignature == [enabled |-> FALSE, algorithm |-> Undefined,
                autoGenerate |-> Undefined, privateKeyPath |-> Undefined]

\* mergeWithDefaults 83-106: the fields the model follows.  A signature
\* section is kept only when enabled; the user's members override the
\* defaults, so an absent member takes the default and a present one,
\* whatever its value, is kept.
mergeWithDefaults(userConfig) ==
    [platforms |-> IF userConfig.platformsSet THEN userConfig.platforms
                   ELSE DefaultPlatforms,
     version |-> userConfig.version,
     minify |-> IF userConfig.minify.t = "undefined" THEN Bool(TRUE)
                ELSE userConfig.minify,
     signature |->
        IF userConfig.signature.enabled
        THEN [enabled |-> TRUE,
              algorithm |-> IF userConfig.signature.algorithm.t = "undefined"
                            THEN Str(RSA_SHA256)
                            ELSE userConfig.signature.algorithm,
              autoGenerate |-> IF userConfig.signature.autoGenerate.t = "undefined"
                               THEN Bool(TRUE)
                               ELSE userConfig.signature.autoGenerate,
              privateKeyPath |-> userConfig.signature.privateKeyPath]
        ELSE NoSignature]

\* the first platform of the list outside {ios, android} (0 when none)
FirstInvalidPlatform(list) ==
    IF \E i \in DOMAIN list : list[i] \notin SupportedPlatforms
    THEN CHOOSE i \in DOMAIN list :
            /\ list[i] \notin SupportedPlatforms
            /\ \A j \in 1..(i - 1) : list[j] \in SupportedPlatforms
    ELSE 0

\* validateConfig 111-180: the error it throws (NoError when it returns)
validateConfig(config, disk) ==
    IF ~disk.projectExists
    THEN Error("Project path does not exist", ProjectPath)
    ELSE IF ~disk.packageJson
    THEN Error("package.json not found in project", ProjectPath)
    ELSE IF ~disk.reactNative /\ ~disk.reactNativeCli
    THEN Error("Not a React Native project", ProjectPath)
    ELSE IF FirstInvalidPlatform(config.platforms) # 0
    THEN Error("Invalid platform",
               config.platforms[FirstInvalidPlatform(config.platforms)])
    ELSE IF ~Falsy(config.version) /\ ~semverValid(config.version)
    THEN Error("Invalid version format", Shown(config.version))
    ELSE IF config.signature.enabled
            /\ ~Falsy(config.signature.algorithm)
            /\ (config.signature.algorithm.t # "str"
                \/ config.signature.algorithm.s \notin Algorithms)
    THEN Error("Invalid signature algorithm", Shown(config.signature.algorithm))
    ELSE NoError

\* loadConfig 60-78
loadConfig(disk) ==
    IF ~disk.configExists
    THEN [error |-> Error("Configuration file not found", ConfigFile),
          config |-> mergeWithDefaults(disk)]
    ELSE [error |-> validateConfig(mergeWithDefaults(disk), disk),
          config |-> mergeWithDefaults(disk)]

\* validateConfig 170-178: the warning for a private key that is named, not
\* auto-generated, and not on disk; the configuration is left as it is
validateWarnings(config, disk) ==
    IF config.signature.enabled /\ Falsy(config.signature.autoGenerate)
          /\ ~Falsy(config.signature.privateKeyPath) /\ ~disk.keyExists
    THEN {"Private key not found. Will be auto-generated."}
    ELSE {}

\* the version of the project's package.json, or "1.0.0"
\* (toBuildConfig 189-196, build-ci 281-291)
PackageVersion(disk) ==
    IF disk.packageJson /\ ~Falsy(disk.packageVersion)
    THEN disk.packageVersion ELSE Str(S("1.0.0"))

\* toBuildConfig 185-220: the BuildConfig handed to the builder
NoBuildConfig == [platforms |-> <<>>, version |-> Undefined, minify |-> Undefined,
                  signature |-> NoSignature]
toBuildConfig(config, disk) ==
    [platforms |-> config.platforms,
     minify |-> config.minify,
     version |-> IF Falsy(config.version) THEN PackageVersion(disk)
                 ELSE config.version,
     signature |->
        IF config.signature.enabled
        THEN [enabled |-> TRUE,
              algorithm |-> IF Falsy(config.signature.algorithm)
                            THEN Str(RSA_SHA256) ELSE config.signature.algorithm,
              autoGenerate |-> IF config.signature.autoGenerate.t = "undefined"
                               THEN Bool(TRUE) ELSE config.signature.autoGenerate,
              privateKeyPath |-> config.signature.privateKeyPath]
        ELSE NoSignature]

----------------------------------------------------------------------------
(* HotUpdateBuilder (part_000) and the commands that run it (index.ts,      *)
(* commands/advanced.ts).                                                   *)

BuildCommands == {"build", "build-ci", "build-config", "build-platform"}
ConfigCommands == {"build-config", "config-validate"}
Commands == BuildCommands \cup {"config-validate"}

\* the stages of buildPlatform, in source order (part_000 79-141)
Stages == <<"prepareDirs", "buildBundle", "validateBundle",
            "copyAdditionalAssets", "analyzeMetroAssets",
            "verifyAssetConsistency", "generateHotUpdateManifest",
            "createZipFile", "stat">>

Path(kind, platform) == <<kind, platform>>
OutputDir == Path("outputPath", "")
BundlePath(platform) == Path("bundle", platform)
ZipPath(platform) == Path("zip", platform)
NoPath == Path("", "")

Platform == platforms[pidx]
\* stages that start whatever was completed before them
Running_anyOrder(stage) ==
    pc = "buildPlatform" /\ Len(trail) + 1 <= Len(Stages)

\* buildPlatform 79-161 is one sequence of awaits: a stage starts when the
\* one before it has returned
Running(stage) ==
    /\ pc = "buildPlatform"
    /\ Len(trail) + 1 <= Len(Stages) /\ Stages[Len(trail) + 1] = stage

\* whether verifyAssetConsistency returned warnings for the current platform
Warned == \E i \in DOMAIN trail : trail[i] = "verifyAssetConsistency:warnings"

\* buildAllPlatforms 37-63: the loop moves to the next platform, and
\* returns the results after the last one
NextPlatform ==
    /\ trail' = <<>>
    /\ IF pidx < Len(platforms)
       THEN pidx' = pidx + 1 /\ pc' = "buildPlatform"
       ELSE pidx' = pidx /\ pc' = "returned"

\* a push that keeps only the successful results
Push_onlySuccessful(list, result) ==
    IF result.success THEN Append(list, result) ELSE list

\* results.push(result)
Push(list, result) == Append(list, result)

\* buildPlatform 151-160: an error thrown inside its try block becomes the
\* platform's result
FailedResult(platform, bundlePath, message) ==
    [success |-> FALSE, platform |-> platform, bundlePath |-> bundlePath,
     zipPath |-> NoPath, size |-> 0, error |-> message]
Catch(stage, message, hadWarnings) ==
    /\ results' = Push(results, FailedResult(Platform, BundlePath(Platform), message))
    /\ faults' = Append(faults, stage)
    /\ warned' = Append(warned, hadWarnings)
    /\ NextPlatform
CatchInBuildPlatform(stage, message) == Catch(stage, message, Warned)

\* a stage that completed: buildPlatform goes on to the next one
Continue(stage) ==
    /\ trail' = Append(trail, stage)
    /\ UNCHANGED <<pc, pidx, results, faults, warned>>

CliFrame == UNCHANGED <<sigVars, hu, libVars, cmd, opts, env, loadError, platforms, buildConfig>>

\* a build-config that does not look at --dry-run
ValidateOnly_ignoresDryRun == cmd = "config-validate"

\* --dry-run of build-config (index.ts 204-207); config validate never builds
ValidateOnly == cmd = "config-validate" \/ opts.dryRun

\* build-config 193-211 and config validate 390-402: loadConfig, then stop
\* or hand the platform list to the builder
LoadConfig ==
    LET r == loadConfig(env)
    IN  /\ cmd \in ConfigCommands /\ pc = "start"
        /\ loadError' = r.error
        /\ IF r.error.kind # ""
           THEN pc' = "exited" /\ exitCode' = 1 /\ UNCHANGED <<platforms, buildConfig>>
           ELSE IF ValidateOnly
           THEN pc' = "exited" /\ exitCode' = 0 /\ UNCHANGED <<platforms, buildConfig>>
           ELSE /\ pc' = "buildAllPlatforms"
                /\ buildConfig' = toBuildConfig(r.config, env)
                /\ platforms' = toBuildConfig(r.config, env).platforms
                /\ UNCHANGED exitCode
        /\ UNCHANGED <<sigVars, hu, libVars, cmd, opts, env, pidx, trail, results,
                       faults, warned, built, spawned, artifacts, fsWrites, manifests>>

\* build-ci 278-311: the BuildConfig made from the flags; the version is the
\* --version flag or, without one, the version of package.json
ciBuildConfig(options, disk) ==
    [platforms |-> options.platforms,
     minify |-> Bool(Falsy(options.noMinify)),
     version |-> IF Falsy(options.version) THEN PackageVersion(disk)
                 ELSE options.version,
     signature |->
        IF options.signature
        THEN [enabled |-> TRUE, algorithm |-> Str(RSA_SHA256),
              autoGenerate |-> Bool(Falsy(options.privateKey)),
              privateKeyPath |-> options.privateKey]
        ELSE NoSignature]

\* promptBuildConfig (prompt-helper.ts 20-140) with "Use current version"
\* chosen: the version of package.json or "1.0.0"; no signature section
promptBuildConfig(options, disk) ==
    [platforms |-> options.platforms, version |-> PackageVersion(disk),
     minify |-> Bool(TRUE), signature |-> NoSignature]

\* build-ci 266-276: the platforms flag is split and validated
ParseCiOptions ==
    /\ cmd = "build-ci" /\ pc = "start"
    /\ IF FirstInvalidPlatform(opts.platforms) # 0
       THEN pc' = "exited" /\ exitCode' = 1 /\ UNCHANGED <<platforms, buildConfig>>
       ELSE pc' = "buildAllPlatforms" /\ platforms' = opts.platforms
            /\ buildConfig' = ciBuildConfig(opts, env)
            /\ UNCHANGED exitCode
    /\ UNCHANGED <<sigVars, hu, libVars, cmd, opts, env, loadError, pidx, trail,
                   results, faults, warned, built, spawned, artifacts, fsWrites, manifests>>

\* build 30-41 and advanced build-platform 17-49: the prompts, then the
\* confirmation; a refusal ends the command with status 0
PromptBuildConfig ==
    /\ cmd \in {"build", "build-platform"} /\ pc = "start"
    /\ IF ~opts.confirmed
       THEN pc' = "exited" /\ exitCode' = 0 /\ UNCHANGED <<platforms, buildConfig>>
       ELSE pc' = "buildAllPlatforms" /\ platforms' = opts.platforms
            /\ buildConfig' = promptBuildConfig(opts, env)
            /\ UNCHANGED exitCode
    /\ UNCHANGED <<sigVars, hu, libVars, cmd, opts, env, loadError, pidx, trail,
                   results, faults, warned, built, spawned, artifacts, fsWrites, manifests>>

\* buildAllPlatforms 29-37: ensureDir(outputPath) before the loop; when it
\* throws the call rejects and the command's catch exits with status 1
StartBuildAll(ok) ==
    /\ pc = "buildAllPlatforms"
    /\ IF ok
       THEN /\ fsWrites' = fsWrites \cup {OutputDir} /\ UNCHANGED manifests
            /\ IF platforms = <<>>
               THEN pc' = "returned" /\ pidx' = 0
               ELSE pc' = "buildPlatform" /\ pidx' = 1
            /\ UNCHANGED exitCode
       ELSE pc' = "exited" /\ exitCode' = 1 /\ UNCHANGED <<fsWrites, manifests, pidx>>
    /\ UNCHANGED <<trail, results, faults, warned, built, spawned, artifacts>>
    /\ CliFrame

\* buildPlatform 74-80: ensureDir(bundleDir), ensureDir(assetsDir), outside
\* its try block: an error here is caught by buildAllPlatforms 50-62, which
\* pushes a result with an empty bundlePath
PrepareDirs(ok) ==
    /\ Running("prepareDirs")
    /\ IF ok
       THEN /\ fsWrites' = fsWrites \cup {Path("bundles", Platform), Path("assets", Platform)}
            /\ UNCHANGED manifests
            /\ Continue("prepareDirs")
       ELSE /\ results' = Push(results, FailedResult(Platform, NoPath, "EACCES: mkdir"))
            /\ faults' = Append(faults, "prepareDirs")
            /\ warned' = Append(warned, Warned)
            /\ NextPlatform
            /\ UNCHANGED <<fsWrites, manifests>>
    /\ UNCHANGED <<built, spawned, artifacts, exitCode>>
    /\ CliFrame

\* buildPlatform 88-98: the BundleConfig given to buildBundle;
\* minify is this.config.minify || true
bundleConfig(platform, config) ==
    [platform |-> platform, dev |-> FALSE,
     minify |-> IF Falsy(config.minify) THEN Bool(TRUE) ELSE config.minify]

\* buildBundle (part_001 289-345): ensureDir, then the bundler is spawned;
\* it resolves on exit code 0 and rejects on another code or a spawn error
BuildBundle(outcome) ==
    /\ Running("buildBundle")
    /\ built' = IF outcome = "ensureDirError" THEN built ELSE Append(built, Platform)
    /\ spawned' = IF outcome = "ensureDirError" THEN spawned
                  ELSE Append(spawned, bundleConfig(Platform, buildConfig))
    /\ IF outcome = "code0"
       THEN fsWrites' = fsWrites \cup {BundlePath(Platform)} /\ UNCHANGED manifests
            /\ Continue("buildBundle")
       ELSE /\ CatchInBuildPlatform("buildBundle",
                    CASE outcome = "code1" -> "Bundle build failed with code 1"
                      [] outcome = "spawnError" -> "spawn npx ENOENT"
                      [] OTHER -> "EACCES: mkdir")
            /\ UNCHANGED <<fsWrites, manifests>>
    /\ UNCHANGED <<artifacts, exitCode>>
    /\ CliFrame
BundleOutcomes == {"code0", "code1", "spawnError", "ensureDirError"}

\* buildPlatform 105-108: validateBundle (part_001 430-456) answers false
\* for a missing or empty bundle
ValidateBundle(isValid) ==
    /\ Running("validateBundle")
    /\ IF isValid THEN Continue("validateBundle")
       ELSE CatchInBuildPlatform("validateBundle", "Bundle validation failed")
    /\ UNCHANGED <<built, spawned, artifacts, fsWrites, manifests, exitCode>>
    /\ CliFrame

\* buildPlatform 111: copyAdditionalAssets 238-264
CopyAdditionalAssets(ok) ==
    /\ Running("copyAdditionalAssets")
    /\ IF ok THEN Continue("copyAdditionalAssets")
       ELSE CatchInBuildPlatform("copyAdditionalAssets", "ENOENT: copy")
    /\ UNCHANGED <<built, spawned, artifacts, fsWrites, manifests, exitCode>>
    /\ CliFrame

\* buildPlatform 114: analyzeMetroAssets 183-221
AnalyzeMetroAssets(ok) ==
    /\ Running("analyzeMetroAssets")
    /\ IF ok THEN Continue("analyzeMetroAssets")
       ELSE CatchInBuildPlatform("analyzeMetroAssets", "EACCES: scandir")
    /\ UNCHANGED <<built, spawned, artifacts, fsWrites, manifests, exitCode>>
    /\ CliFrame

\* String.prototype.includes: sub occurs in s
Includes(s, sub) ==
    \E i \in 0..(Len(s) - Len(sub)) : SubSeq(s, i + 1, i + Len(sub)) = sub

\* path.basename(p): what follows the last "/"
basename(p) == LET parts == split(p, "/") IN parts[Len(parts)]
\* path.parse(name).name: the name without its extension (its last token
\* when that one starts an extension)
nameWithoutExt(name) ==
    IF Len(name) > 1 THEN SubSeq(name, 1, Len(name) - 1) ELSE name

\* path.extname(file).substring(1): the extension without its dot ("" when
\* the name has none)
Extensions ==
    (".png" :> "png") @@ (".jpg" :> "jpg") @@ (".json" :> "json") @@ (".mp3" :> "mp3")
extname(file) ==
    IF Len(file) > 1 /\ file[Len(file)].c \in DOMAIN Extensions
    THEN S(Extensions[file[Len(file)].c]) ELSE <<>>

\* an entry of the asset directory: the subdirectory it is in ("" when it is
\* directly in the asset directory), its name, and whether it is a file
AssetDirEntry(dir, name, isFile) == [dir |-> dir, name |-> name, isFile |-> isFile]

\* analyzeMetroAssets 187-194
assetDirs == <<"drawable-mdpi", "drawable-hdpi", "drawable-xhdpi",
               "drawable-xxhdpi", "drawable-xxxhdpi", "raw">>
\* getDensityScale 226-237
getDensityScale(dirName) ==
    CASE dirName = "drawable-mdpi" -> <<"1">>
      [] dirName = "drawable-hdpi" -> <<"1.5">>
      [] dirName = "drawable-xhdpi" -> <<"2">>
      [] dirName = "drawable-xxhdpi" -> <<"3">>
      [] dirName = "drawable-xxxhdpi" -> <<"4">>
      [] dirName = "raw" -> <<"1">>
      [] OTHER -> <<"1">>

AssetFile(name, type, location, scales, hash) ==
    [name |-> name, type |-> type, httpServerLocation |-> location,
     scales |-> scales, hash |-> hash]
\* analyzeMetroAssets 183-221: for each of the six subdirectories that
\* exists, one record per file in it.  Nothing else of the asset directory
\* is read, and the platform is not a parameter.
analyzeMetroAssets(assetsDir) ==
    Flat([d \in DOMAIN assetDirs |->
            LET dir == assetDirs[d]
                files == SelectSeq(assetsDir, LAMBDA e : e.dir = dir /\ e.isFile)
            IN  [i \in DOMAIN files |->
                    AssetFile(files[i].name, extname(files[i].name),
                              <<T(dir), T("/")>> \o files[i].name,
                              getDensityScale(dir), S("1700000000000"))]])

\* what the bundler left in the asset directory of the builds of the
\* command line: one drawable, named with a hash suffix, and one file
\* directly in the directory
AssetsDir ==
    <<AssetDirEntry("drawable-mdpi", <<T("icon"), T("_a1b2"), T(".png")>>, TRUE),
      AssetDirEntry("", <<T("splash"), T(".png")>>, TRUE)>>
MetroAssets == analyzeMetroAssets(AssetsDir)
\* buildPlatform 117: allAssets = [...metroAssets, ...additionalAssets]
AllAssets == MetroAssets

\* the text of a bundle: statements that name an asset path.  close is the
\* character that follows the closing quote
AssetRef(dir, name) == <<T(dir), T("/"), T(name), T(".png")>>
Require(assetPath, close) ==
    <<T("require("), T("'")>> \o assetPath \o <<T("'"), T(close), T(";")>>
ImportFrom(assetPath, close) ==
    <<T("import"), T(" "), T("img"), T(" "), T("from"), T(" "), T("\"")>>
        \o assetPath \o <<T("\""), T(close)>>
BundleStatements ==
    <<Require(AssetRef("img", "icon"), ")"),
      Require(AssetRef("img", "logo"), ")"),
      ImportFrom(AssetRef("img", "logo"), ";"),
      Require(AssetRef("img", "logo"), "]"),
      ImportFrom(AssetRef("img", "icon"), "]")>>
StatementLists ==
    {SelectSeq(BundleStatements, LAMBDA st : st \in K) :
        K \in SUBSET {BundleStatements[i] : i \in DOMAIN BundleStatements}}
\* the bundles of the builds of the command line: at most one statement
BundleContents == {Flat(l) : l \in {l \in StatementLists : Len(l) <= 1}}

Quotes == {T("'"), T("\"")}
ImageExtensions == {T(".png"), T(".jpg"), T(".jpeg"), T(".gif"), T(".webp"), T(".svg")}
\* ['"]([^'"]+\.(?:png|jpg|jpeg|gif|webp|svg))['"]] at tokens i..j of the
\* text: a quote, a path without quotes that ends in an image extension, a
\* quote, and then a closing bracket
QuotedImagePath(text, i, j) ==
    /\ i + 3 < j /\ j <= Len(text)
    /\ text[i] \in Quotes /\ text[j - 1] \in Quotes /\ text[j] = T("]")
    /\ \A k \in (i + 1)..(j - 2) : text[k] \notin Quotes
    /\ text[j - 2] \in ImageExtensions
\* verifyAssetConsistency 319-322: the two patterns, and 326-331 the set of
\* their first groups over all matches
requirePattern(text) ==
    LET found == {p \in (2..Len(text)) \X (1..Len(text)) :
                    /\ text[p[1] - 1] = T("require(")
                    /\ QuotedImagePath(text, p[1], p[2])}
    IN  {SubSeq(text, p[1] + 1, p[2] - 2) : p \in found}
\* import\s+[^'"]+\s+from\s+ before the quoted path
ImportClause(text, i) ==
    /\ i > 6 /\ text[i - 1] = T(" ") /\ text[i - 2] = T("from")
    /\ text[i - 3] = T(" ")
    /\ \E m \in 1..(i - 6) :
            /\ text[m] = T("import") /\ text[m + 1] = T(" ")
            /\ \A k \in (m + 2)..(i - 4) : text[k] \notin Quotes
importPattern(text) ==
    LET found == {p \in (2..Len(text)) \X (1..Len(text)) :
                    /\ ImportClause(text, p[1])
                    /\ QuotedImagePath(text, p[1], p[2])}
    IN  {SubSeq(text, p[1] + 1, p[2] - 2) : p \in found}

\* verifyAssetConsistency 309-360: the paths the patterns find in the bundle
\* text; one of them that none of Metro's asset names includes is a warning;
\* valid means no warning
verifyAssetConsistency(bundleContent, metroAssets) ==
    LET bundleAssets == requirePattern(bundleContent) \cup importPattern(bundleContent)
        metroAssetNames == {metroAssets[i].name : i \in DOMAIN metroAssets}
        hasMetroAsset(assetPath) ==
            \E name \in metroAssetNames :
                Includes(name, nameWithoutExt(basename(assetPath)))
        warnings == {a \in bundleAssets : ~hasMetroAsset(a)}
    IN  [valid |-> warnings = {}, warnings |-> warnings]

\* a check that makes the warnings fatal
throwsOnVerification_strict(verification) == ~verification.valid

\* buildPlatform 120-129: the warnings are printed and nothing is thrown
throwsOnVerification(verification) == FALSE

\* buildPlatform 120-129: verifyAssetConsistency 309-360 reads the bundle
\* (a read error is thrown into buildPlatform's catch) and returns warnings
VerifyAssetConsistency(readable, bundleContent) ==
    /\ Running("verifyAssetConsistency")
    /\ LET verification == verifyAssetConsistency(bundleContent, MetroAssets)
       IN  IF ~readable
           THEN CatchInBuildPlatform("verifyAssetConsistency", "EACCES: open bundle")
           ELSE IF throwsOnVerification(verification)
           THEN Catch("verifyAssetConsistency", "Asset verification failed",
                      verification.warnings # {})
           ELSE IF verification.warnings # {}
           THEN Continue("verifyAssetConsistency:warnings")
           ELSE Continue("verifyAssetConsistency")
    /\ UNCHANGED <<built, spawned, artifacts, fsWrites, manifests, exitCode>>
    /\ CliFrame

\* generateHotUpdateManifest 269-304: the object written to manifest.json
generateHotUpdateManifest(platform, config, assets) ==
    Obj(<<KV("version", config.version),
          KV("platform", Str(S(platform))),
          KV("bundleUrl", Str(<<T("bundles/"), T("index."), T(platform), T(".bundle")>>)),
          KV("bundleSize", Num(S("1"))),
          KV("bundleHash", Str(S("1700000000000"))),
          KV("assets", Arr([i \in DOMAIN assets |->
                KV("", Obj(<<KV("name", Str(assets[i].name)),
                             KV("type", Str(assets[i].type)),
                             KV("url", Str(assets[i].httpServerLocation)),
                             KV("hash", Str(assets[i].hash)),
                             KV("size", Num(S("0")))>>))])),
          KV("timestamp", Num(Now)),
          KV("minAppVersion", Str(S("1.0.0"))),
          KV("metadata", Obj(<<KV("buildTime", Str(Now)),
                               KV("builder", Str(S("nitro-hotupdate-cli"))),
                               KV("sourcemap", Bool(FALSE)),
                               KV("minified", Bool(~Falsy(config.minify)))>>))>>)

\* buildPlatform 132-137: generateHotUpdateManifest 269-304 writes manifest.json
GenerateHotUpdateManifest(ok) ==
    /\ Running("generateHotUpdateManifest")
    /\ IF ok
       THEN fsWrites' = fsWrites \cup {Path("manifest", Platform)}
            /\ manifests' = Append(manifests,
                    [platform |-> Platform, index |-> pidx,
                     manifest |-> generateHotUpdateManifest(Platform, buildConfig, AllAssets)])
            /\ Continue("generateHotUpdateManifest")
       ELSE CatchInBuildPlatform("generateHotUpdateManifest", "ENOSPC: write manifest.json")
            /\ UNCHANGED <<fsWrites, manifests>>
    /\ UNCHANGED <<built, spawned, artifacts, exitCode>>
    /\ CliFrame

\* createZipFile 361-389.  The promise resolves on the output stream's
\* 'close' and rejects on the archiver's 'error'.  The output stream has no
\* 'error' listener: when the archive file cannot be opened or written,
\* either the unhandled 'error' event ends the process as an uncaught
\* exception, or it is dropped and the stream's 'close' resolves the
\* promise, depending on the stream implementation behind archive.pipe.
ZipOutcomes == {"close", "archiveError", "outputError:uncaught", "outputError:close"}
CreateZipFile(outcome) ==
    /\ Running("createZipFile")
    /\ CASE outcome = "close" ->
                /\ fsWrites' = fsWrites \cup {ZipPath(Platform)} /\ UNCHANGED manifests
                /\ artifacts' = artifacts \cup {Platform}
                /\ Continue("createZipFile")
                /\ UNCHANGED exitCode
         [] outcome = "archiveError" ->
                /\ CatchInBuildPlatform("createZipFile", "archiver: cannot read entry")
                /\ UNCHANGED <<fsWrites, manifests, artifacts, exitCode>>
         [] outcome = "outputError:uncaught" ->
                /\ pc' = "crashed" /\ exitCode' = 1
                /\ UNCHANGED <<fsWrites, manifests, artifacts, trail, pidx, results, faults, warned>>
         [] outcome = "outputError:close" ->
                /\ Continue("createZipFile:lost")
                /\ UNCHANGED <<fsWrites, manifests, artifacts, exitCode>>
    /\ UNCHANGED <<built, spawned>>
    /\ CliFrame

\* buildPlatform 141-150: fs.stat(zipPath), then the successful result
ZipError == trail # <<>> /\ trail[Len(trail)] = "createZipFile:lost"
SuccessResult(platform) ==
    [success |-> TRUE, platform |-> platform, bundlePath |-> BundlePath(platform),
     zipPath |-> ZipPath(platform), size |-> 1, error |-> ""]
StatZip(ok) ==
    /\ Running("stat")
    /\ IF ok
       THEN /\ results' = Push(results, SuccessResult(Platform))
            /\ faults' = Append(faults, IF ZipError THEN "createZipFile" ELSE "")
            /\ warned' = Append(warned, Warned)
            /\ NextPlatform
       ELSE /\ results' = Push(results, FailedResult(Platform, BundlePath(Platform), "ENOENT: stat"))
            /\ faults' = Append(faults, IF ZipError THEN "createZipFile" ELSE "stat")
            /\ warned' = Append(warned, Warned)
            /\ NextPlatform
    /\ UNCHANGED <<built, spawned, artifacts, fsWrites, manifests, exitCode>>
    /\ CliFrame

\* what the command does with the results: build 58-62, build-config
\* 228-231 and build-ci 334-337 exit with status 1 when a result has
\* success = false; advanced build-platform 52-54 only prints the summary
failedBuilds(rs) == SelectSeq(rs, LAMBDA r : ~r.success)
ExitStatus(command, rs) ==
    IF command \in {"build", "build-config", "build-ci"}
    THEN IF Len(failedBuilds(rs)) > 0 THEN 1 ELSE 0
    ELSE 0

FinishCommand ==
    /\ pc = "returned"
    /\ pc' = "exited"
    /\ exitCode' = ExitStatus(cmd, results)
    /\ UNCHANGED <<trail, pidx, results, faults, warned, built, spawned, artifacts, fsWrites, manifests>>
    /\ CliFrame

\* what is on disk for a config-file command: the configuration as written,
\* or one that departs from it in one respect
Disk(platformsSet, list, deviation) ==
    LET base == [configExists |-> TRUE, projectExists |-> TRUE,
                 packageJson |-> TRUE, reactNative |-> TRUE,
                 reactNativeCli |-> FALSE,
                 platformsSet |-> platformsSet, platforms |-> list,
                 version |-> Str(S("1.2.3")),
                 packageVersion |-> Str(S("1.2.3")), keyExists |-> FALSE,
                 minify |-> Undefined,
                 signature |-> NoSignature]
        sig(a) == [NoSignature EXCEPT !.enabled = TRUE, !.algorithm = a]
        key(auto, named) ==
            [sig(Undefined) EXCEPT !.autoGenerate = auto,
                !.privateKeyPath = IF named THEN Str(S("keys/private.pem"))
                                   ELSE Undefined]
    IN  CASE deviation = "noConfig" -> [base EXCEPT !.configExists = FALSE]
          [] deviation = "noProject" -> [base EXCEPT !.projectExists = FALSE]
          [] deviation = "noPackageJson" -> [base EXCEPT !.packageJson = FALSE]
          [] deviation = "noReactNative" -> [base EXCEPT !.reactNative = FALSE]
          [] deviation = "cliOnly" ->
                [base EXCEPT !.reactNative = FALSE, !.reactNativeCli = TRUE]
          [] deviation = "noVersion" -> [base EXCEPT !.version = Undefined]
          [] deviation = "emptyVersion" -> [base EXCEPT !.version = Str(<<>>)]
          [] deviation = "badVersion" -> [base EXCEPT !.version = Str(S("1.2"))]
          [] deviation = "signed" -> [base EXCEPT !.signature = sig(Undefined)]
          [] deviation = "signedECDSA" -> [base EXCEPT !.signature = sig(Str(ECDSA_SHA256))]
          [] deviation = "emptyAlgorithm" -> [base EXCEPT !.signature = sig(Str(<<>>))]
          [] deviation = "badAlgorithm" -> [base EXCEPT !.signature = sig(Str(S("HMAC-SHA256")))]
          [] deviation = "noMinify" -> [base EXCEPT !.minify = Bool(FALSE)]
          [] deviation = "noVersionPkgBad" ->
                [base EXCEPT !.version = Undefined, !.packageVersion = Str(S("banana"))]
          [] deviation = "noVersionPkgNone" ->
                [base EXCEPT !.version = Undefined, !.packageVersion = Undefined]
          [] deviation = "pkgBad" -> [base EXCEPT !.packageVersion = Str(S("banana"))]
          [] deviation = "pkgNone" -> [base EXCEPT !.packageVersion = Undefined]
          [] deviation = "keyNoAuto" ->
                [base EXCEPT !.signature = key(Bool(FALSE), TRUE), !.keyExists = TRUE]
          [] deviation = "missingKeyNoAuto" ->
                [base EXCEPT !.signature = key(Bool(FALSE), TRUE)]
          [] deviation = "noKeyNoAuto" ->
                [base EXCEPT !.signature = key(Bool(FALSE), FALSE)]
          [] deviation = "missingKeyAuto" ->
                [base EXCEPT !.signature = key(Undefined, TRUE)]
          [] OTHER -> base
Deviations == {"noConfig", "noProject", "noPackageJson", "noReactNative",
               "cliOnly", "noVersion", "emptyVersion", "badVersion", "signed",
               "signedECDSA", "emptyAlgorithm", "badAlgorithm",
               "noVersionPkgBad", "noVersionPkgNone", "keyNoAuto",
               "missingKeyNoAuto", "noKeyNoAuto", "missingKeyAuto", "noMinify"}
\* what build-ci and the prompts find in the project
ProjectDisks == {Disk(FALSE, <<>>, d) :
                    d \in {"none", "pkgBad", "pkgNone", "noPackageJson"}}
NoDisk == Disk(FALSE, <<>>, "noConfig")

Lists(names, lo) == UNION {[1..n -> names] : n \in lo..MaxPlatforms}
Disks ==
    {Disk(TRUE, l, "none") : l \in Lists({"ios", "android", "windows"}, 0)}
        \cup {Disk(FALSE, <<>>, d) : d \in Deviations \cup {"none"}}
\* the selections the platform checkbox offers (prompt-helper.ts 41-55)
Selections == {l \in {<<"ios">>, <<"android">>, <<"ios", "android">>} :
                    Len(l) <= MaxPlatforms}

Options(dryRun, confirmed, list) ==
    [dryRun |-> dryRun, confirmed |-> confirmed, platforms |-> list,
     version |-> Undefined, signature |-> FALSE, privateKey |-> Undefined,
     noMinifyFlag |-> FALSE, noMinify |-> Undefined]
\* the flags of build-ci (index.ts 242-264): platforms, version, signature,
\* private-key
CiOptions(list, version, signature, privateKey) ==
    [Options(FALSE, TRUE, list) EXCEPT !.version = version,
        !.signature = signature, !.privateKey = privateKey]
\* --no-minify on the command line (index.ts 257): the option parser stores
\* a negated option under the name without "no-", so opts.noMinify, which
\* the action reads (300), stays undefined
withNoMinify(options) ==
    [options EXCEPT !.noMinifyFlag = TRUE, !.noMinify = Undefined]
CiFlagSets ==
    {CiOptions(l, Undefined, FALSE, Undefined) :
            l \in Lists({"ios", "android", "windows"}, 1)}
    \cup {CiOptions(DefaultPlatforms, v, FALSE, Undefined) :
            v \in {Str(S("1.2.3")), Str(S("banana")), Str(<<>>)}}
    \cup {CiOptions(DefaultPlatforms, Undefined, TRUE, k) :
            k \in {Undefined, Str(S("keys/private.pem"))}}
    \cup {withNoMinify(CiOptions(DefaultPlatforms, Undefined, FALSE, Undefined))}

\* ---- PackageManager.createZipPackage (package-manager.ts 32-139)

\* an entry of the source directory: its name, whether stat says it is a
\* file, its size, and for manifest.json whether it parses
DirFile(name, isFile, size, content) ==
    [name |-> name, isFile |-> isFile, size |-> size, content |-> content]
DirEntries(manifestContent) ==
    <<DirFile(S("assets"), FALSE, 0, ""),
      DirFile(<<T("icon"), T(".png")>>, TRUE, 2, ""),
      DirFile(<<T("index.android"), T(".bundle")>>, TRUE, 7, ""),
      DirFile(<<T("index.android"), T(".bundle"), T(".map")>>, TRUE, 9, ""),
      DirFile(S("manifest.json"), TRUE, 3, manifestContent)>>
\* the directories createZipPackage is given: any selection of the entries,
\* in readdir order
SourceDirs ==
    {SelectSeq(DirEntries(c), LAMBDA f : f.name \in K) :
        c \in {"json", "garbage"},
        K \in SUBSET {DirEntries("json")[i].name : i \in 1..5}}

\* fs.readJSON(manifest.json), when it does not throw
ManifestData == Obj(<<KV("version", Str(S("1.0.0")))>>)

\* the locals of countPackageContents 117-119, and of the promise body 60-62
NoCounts == [bundle |-> 0, assets |-> 0, manifestData |-> Null]

\* fs.readJSON throws for this entry
readJSONThrows(f) == f.name = S("manifest.json") /\ f.content = "garbage"

\* countPackageContents 123-136: one turn of the loop, after stat
countFile(acc, f) ==
    IF ~f.isFile THEN acc
    ELSE IF Includes(f.name, S(".bundle")) \/ Includes(f.name, S(".jsbundle"))
    THEN [acc EXCEPT !.bundle = f.size]
    ELSE IF f.name = S("manifest.json")
    THEN [acc EXCEPT !.manifestData = ManifestData]
    ELSE IF ~Includes(f.name, S(".map"))
    THEN [acc EXCEPT !.assets = acc.assets + 1]
    ELSE acc

\* countPackageContents 114-139, when nothing throws
RECURSIVE countFrom(_, _)
countFrom(acc, files) ==
    IF files = <<>> THEN acc
    ELSE countFrom(countFile(acc, Head(files)), Tail(files))
countPackageContents(files) == countFrom(NoCounts, files)

\* the PackageInfo of lines 73-81 (the members the walk feeds), or an error
PackageInfo(counts) ==
    [bundleSize |-> counts.bundle, assetCount |-> counts.assets,
     manifest |-> counts.manifestData, error |-> ""]
Rejection(message) ==
    [bundleSize |-> 0, assetCount |-> 0, manifest |-> Null, error |-> message]

\* one call of createZipPackage: where the call is (pc), the archive and the
\* walk, the walk's locals (w), the promise body's locals (local), the
\* returned promise and whether a rejection was left unhandled
PkgState(pcv, dir) ==
    [pc |-> pcv, dir |-> dir, archive |-> "notStarted", warnings |-> 0,
     walk |-> "notStarted", widx |-> 0, w |-> NoCounts, local |-> NoCounts,
     promise |-> "pending", value |-> Rejection(""), unhandled |-> FALSE]
PkgNone == PkgState("idle", <<>>)
\* ---- PackageManager.generatePackageManifest (package-manager.ts 239-267)

\* a PackageInfo as createZipPackage and createCombinedPackage resolve it
PackageOf(platform, counts) ==
    [platform |-> platform, bundleSize |-> counts.bundle,
     assetCount |-> counts.assets, manifest |-> counts.manifestData]

\* Array.prototype.reduce(f, initial): left to right
RECURSIVE reduce(_, _, _)
reduce(f(_, _), seq, initial) ==
    IF seq = <<>> THEN initial
    ELSE reduce(f, Tail(seq), f(initial, Head(seq)))

\* a total that is the size of the last package only
totalSize_lastOnly(packages) ==
    IF packages = <<>> THEN 0 ELSE packages[Len(packages)].bundleSize

\* generatePackageManifest 259: packages.reduce((sum, p) => sum + p.bundleSize, 0)
totalSize(packages) == reduce(LAMBDA sum, q : sum + q.bundleSize, packages, 0)
\* generatePackageManifest 260
totalAssets(packages) == reduce(LAMBDA sum, q : sum + q.assetCount, packages, 0)

\* generatePackageManifest 245-262: the index written to
\* packages-manifest.json
generatePackageManifest(packages) ==
    [packages |-> [i \in DOMAIN packages |->
                    [platform |-> packages[i].platform,
                     bundleSize |-> packages[i].bundleSize,
                     assetCount |-> packages[i].assetCount,
                     checksum |-> IF packages[i].manifest = Null THEN "unknown"
                                  ELSE "bundleHash"]],
     totalPackages |-> Len(packages),
     summary |->
        [platforms |-> [i \in DOMAIN packages |-> packages[i].platform],
         totalSize |-> totalSize(packages),
         totalAssets |-> totalAssets(packages)]]

\* the packages a caller may hand over
PackageInfos ==
    {PackageOf(p, [bundle |-> b, assets |-> a, manifestData |-> m]) :
        p \in {"ios", "android", "combined"}, b \in {0, 7}, a \in {0, 2},
        m \in {Null, ManifestData}}
PackageLists == UNION {[1..n -> PackageInfos] : n \in 0..MaxPackages}

\* one call of generatePackageManifest: its argument and the file written
IdxState(pcv, packages) == [pc |-> pcv, packages |-> packages, index |-> <<>>]

\* ---- BundleBuilder.copyAssets and generateManifest (part_001 235-428)

\* hash.digest("hex") of a file's content, and the prefixed form
SHA256Hex(name) == Blob("sha256hex", name)
calculateSHA256WithPrefix(name) == S("sha256:") \o SHA256Hex(name)

\* what glob returns for the source patterns: files, and directories too
GlobEntry(name, type, isFile) == [name |-> name, type |-> type, isFile |-> isFile]
GlobEntries ==
    <<GlobEntry(<<T("fonts")>>, <<>>, FALSE),
      GlobEntry(<<T("icon"), T(".png")>>, S("png"), TRUE),
      GlobEntry(<<T("strings"), T(".json")>>, S("json"), TRUE)>>
GlobResults ==
    {SelectSeq(GlobEntries, LAMBDA f : f.name \in K) :
        K \in SUBSET {GlobEntries[i].name : i \in 1..3}}

\* copyAssets 377-385: the record of a copied asset
CopiedAsset(file, sha256Hash) ==
    [name |-> file.name, type |-> file.type,
     httpServerLocation |-> S("assets/") \o file.name,
     hash |-> S("1700000000000"), sha256 |-> sha256Hash]

\* generateManifest 408-418: the object written to manifest.json
generateManifest(platform, bundleSHA256, assets) ==
    Obj(<<KV("platform", Str(S(platform))),
          KV("bundleUrl", Str(<<T("bundles/"), T("index."), T(platform), T(".bundle")>>)),
          KV("bundleSize", Num(S("1"))),
          KV("bundleHash", Str(S("1700000000000"))),
          KV("bundleSHA256", Str(bundleSHA256)),
          KV("assets", Arr([i \in DOMAIN assets |->
                KV("", Obj(<<KV("name", Str(assets[i].name)),
                             KV("type", Str(assets[i].type)),
                             KV("httpServerLocation", Str(assets[i].httpServerLocation)),
                             KV("scales", Arr(<<KV("", Num(S("1")))>>)),
                             KV("hash", Str(assets[i].hash)),
                             KV("sha256", Str(assets[i].sha256))>>))])),
          KV("timestamp", Num(Now)),
          KV("version", Str(S("1.0.0")))>>)

\* one run of copyAssets followed by generateManifest: the globbed entries,
\* the loop position, the records collected, the entries whose hashing
\* failed, the manifest written (Null before) and the error thrown
BbState(pcv, platform, files) ==
    [pc |-> pcv, platform |-> platform, files |-> files, fidx |-> 1,
     copiedAssets |-> <<>>,
     hashFailed |-> {}, manifest |-> Null, error |-> ""]
BbNone == BbState("idle", "", <<>>)
LibIdle == pkg = PkgNone /\ bb = BbNone
CliIdle ==
    /\ cmd = "" /\ opts = Options(FALSE, FALSE, <<>>) /\ env = NoDisk
    /\ buildConfig = NoBuildConfig
    /\ pc = "" /\ loadError = NoError
    /\ platforms = <<>> /\ pidx = 0 /\ trail = <<>> /\ results = <<>>
    /\ faults = <<>> /\ built = <<>> /\ artifacts = {} /\ fsWrites = {}
    /\ spawned = <<>>
    /\ manifests = <<>> /\ warned = <<>>
    /\ exitCode = -1

-----------------------------------------------------------------------------
(* buildHotUpdate (part_002 40-156), the build entry point that reads its   *)
(* own configuration file.                                                  *)

\* the steps inside the loop's try block, part_002 74-111
HuSteps == <<"buildBundle", "validateBundle", "copyAssets",
             "generateManifest", "createZipPackage">>

HuConfig(list, enabled, separate) ==
    [platforms |-> list, zip |-> [enabled |-> enabled, separate |-> separate]]
HuState(pcv, config) ==
    [pc |-> pcv, config |-> config, pidx |-> 0, step |-> 0,
     attempted |-> <<>>, builtPackages |-> <<>>, index |-> <<>>, error |-> ""]
HuNone == HuState("idle", HuConfig(<<>>, FALSE, FALSE))
HuFrame == UNCHANGED <<sigVars, cliVars, libVars>>
HuPlatform == hu.config.platforms[hu.pidx]
HuRunning(step) ==
    hu.pc = "platform" /\ hu.step \in DOMAIN HuSteps /\ HuSteps[hu.step] = step

\* the for loop of part_002 57: the next platform, or the code after it
HuNextPlatform(h) ==
    IF h.pidx < Len(h.config.platforms)
    THEN [h EXCEPT !.pc = "platform", !.pidx = h.pidx + 1, !.step = 1]
    ELSE [h EXCEPT !.pc = "createCombinedPackage", !.step = 0]
HuNextStep(h) == [h EXCEPT !.step = h.step + 1]
\* part_002 112-115: the catch logs the error and throws it again, so
\* buildHotUpdate rejects
HuCatch(h, message) == [h EXCEPT !.pc = "rejected", !.error = message]

\* part_002 44: fs.readJSON(configPath)
HuReadJSON(ok) ==
    /\ hu.pc = "readJSON"
    /\ hu' = IF ok THEN HuNextPlatform(hu)
             ELSE [hu EXCEPT !.pc = "rejected", !.error = "ENOENT: config"]
    /\ HuFrame

\* part_002 76: builder.buildBundle (part_001 289-345)
HuBuildBundle(outcome) ==
    /\ HuRunning("buildBundle")
    /\ LET h == [hu EXCEPT !.attempted = Append(hu.attempted, HuPlatform)]
       IN  hu' = IF outcome = "code0" THEN HuNextStep(h)
                 ELSE HuCatch(h, "Bundle build failed")
    /\ HuFrame

\* part_002 79-82
HuValidateBundle(isValid) ==
    /\ HuRunning("validateBundle")
    /\ hu' = IF isValid THEN HuNextStep(hu)
             ELSE HuCatch(hu, "Bundle validation failed")
    /\ HuFrame

\* part_002 85-89
HuCopyAssets(ok) ==
    /\ HuRunning("copyAssets")
    /\ hu' = IF ok THEN HuNextStep(hu) ELSE HuCatch(hu, "ENOENT: copy")
    /\ HuFrame

\* part_002 92-109: the manifest, then the package only when zip.enabled
HuGenerateManifest(ok) ==
    /\ HuRunning("generateManifest")
    /\ hu' = IF ~ok THEN HuCatch(hu, "ENOSPC: write manifest.json")
             ELSE IF hu.config.zip.enabled THEN HuNextStep(hu)
             ELSE HuNextPlatform(hu)
    /\ HuFrame

\* what countPackageContents finds in the output directory of a platform
PlatformContents(platform) ==
    IF platform = "ios"
    THEN [bundle |-> 7, assets |-> 2, manifestData |-> ManifestData]
    ELSE [bundle |-> 5, assets |-> 3, manifestData |-> ManifestData]

\* part_002 101-109: createZipPackage (package-manager.ts 32-109) resolves
\* with the counts of the walk when the walk ended before the archive's
\* stream closed, and with the initial counts when the stream closed first
PackageOutcomes == {"walkFirst", "closeFirst", "error"}
HuCreateZipPackage(outcome) ==
    /\ HuRunning("createZipPackage")
    /\ hu' = IF outcome = "error"
             THEN HuCatch(hu, "archiver: cannot read entry")
             ELSE HuNextPlatform([hu EXCEPT !.builtPackages =
                    Append(hu.builtPackages,
                           PackageOf(HuPlatform,
                                     IF outcome = "walkFirst"
                                     THEN PlatformContents(HuPlatform)
                                     ELSE NoCounts))])
    /\ HuFrame

\* createCombinedPackage 168-237: the counts of every platform directory
\* are added up before the archive is finalized
RECURSIVE combinedCounts(_)
combinedCounts(list) ==
    IF list = <<>> THEN [bundle |-> 0, assets |-> 0, manifestData |-> ManifestData]
    ELSE LET rest == combinedCounts(Tail(list))
             c == PlatformContents(Head(list))
         IN  [rest EXCEPT !.bundle = rest.bundle + c.bundle,
                          !.assets = rest.assets + c.assets]

\* part_002 119-134
HuCreateCombinedPackage(ok) ==
    /\ hu.pc = "createCombinedPackage"
    /\ hu' = IF hu.config.zip.enabled /\ ~hu.config.zip.separate
                    /\ Len(hu.config.platforms) > 1
             THEN IF ok
                  THEN [hu EXCEPT !.pc = "generatePackageManifest",
                          !.builtPackages = Append(hu.builtPackages,
                                PackageOf("combined",
                                          combinedCounts(hu.config.platforms)))]
                  ELSE [hu EXCEPT !.pc = "rejected", !.error = "combined package"]
             ELSE [hu EXCEPT !.pc = "generatePackageManifest"]
    /\ HuFrame

\* part_002 137-142
HuGeneratePackageManifest(ok) ==
    /\ hu.pc = "generatePackageManifest"
    /\ hu' = IF hu.config.zip.enabled /\ Len(hu.builtPackages) > 0
             THEN IF ok
                  THEN [hu EXCEPT !.pc = "generateBuildSummary",
                          !.index = <<generatePackageManifest(hu.builtPackages)>>]
                  ELSE [hu EXCEPT !.pc = "rejected", !.error = "package manifest"]
             ELSE [hu EXCEPT !.pc = "generateBuildSummary"]
    /\ HuFrame

\* part_002 145, generateBuildSummary 158-255
HuGenerateBuildSummary(ok) ==
    /\ hu.pc = "generateBuildSummary"
    /\ hu' = IF ok THEN [hu EXCEPT !.pc = "resolved"]
             ELSE [hu EXCEPT !.pc = "rejected", !.error = "build summary"]
    /\ HuFrame

HuIdle == hu = HuNone

----------------------------------------------------------------------------
(* Specifications *)

KeyIds == {ToString(i) : i \in 1..MaxKeys}
KeyPaths == {PrivatePath(id) : id \in KeyIds} \cup {PublicPath(id) : id \in KeyIds}
                \cup {GarbagePath, MissingPath}

\* the pairs are generated alternately as RSA and ECDSA pairs
KeyAlgorithm(i) == IF i % 2 = 1 THEN RSA_SHA256 ELSE ECDSA_SHA256

InitSig ==
    /\ manifestFile \in {File(m) : m \in InitialManifests}
    /\ keyStore = InitialKeys
    /\ nKeys = 0
    /\ sigOp = NoOp
    /\ signedBy = ""
    /\ tampered = ""
    /\ CliIdle /\ HuIdle /\ LibIdle

NextSig ==
    \/ GenerateKeys(KeyAlgorithm(nKeys + 1))
    \/ \E a \in Algorithms, path \in KeyPaths : SignManifest(a, path)
    \/ \E where \in TamperTargets : Tamper(where)
    \/ \E a \in Algorithms, path \in KeyPaths : Resign(a, path)
    \/ \E label \in OtherLabels : Relabel(label)
    \/ \E how \in DamageKinds : Damage(how)
    \/ Reorder
    \/ \E path \in KeyPaths \cup {<<>>} : VerifyManifest(path)
    \/ \E a \in Algorithms, id \in KeyIds, vid \in KeyIds :
            SignThenVerify(a, id, vid)
    \/ \E class \in BadSignatureClasses, path \in KeyPaths :
            VerifyBadSignature(class, path)

SpecSig == InitSig /\ [][NextSig]_vars

Init ==
    /\ cmd \in Commands
    /\ CASE cmd = "build-config" ->
                env \in Disks /\ opts \in {Options(d, TRUE, <<>>) : d \in BOOLEAN}
         [] cmd = "config-validate" ->
                env \in Disks /\ opts = Options(FALSE, TRUE, <<>>)
         [] cmd = "build-ci" ->
                /\ opts \in CiFlagSets
                /\ env \in IF opts = CiOptions(DefaultPlatforms, Undefined, FALSE, Undefined)
                           THEN ProjectDisks ELSE {Disk(FALSE, <<>>, "none")}
         [] OTHER ->
                /\ env = NoDisk
                /\ opts \in {Options(FALSE, c, l) : c \in BOOLEAN, l \in Selections}
    /\ pc = "start" /\ loadError = NoError
    /\ platforms = <<>> /\ pidx = 0 /\ trail = <<>> /\ results = <<>>
    /\ faults = <<>> /\ built = <<>> /\ artifacts = {} /\ fsWrites = {}
    /\ spawned = <<>>
    /\ manifests = <<>> /\ warned = <<>>
    /\ exitCode = -1 /\ buildConfig = NoBuildConfig
    /\ SigIdle /\ HuIdle /\ LibIdle

Next ==
    \/ LoadConfig
    \/ ParseCiOptions
    \/ PromptBuildConfig
    \/ \E ok \in BOOLEAN : StartBuildAll(ok)
    \/ \E ok \in BOOLEAN : PrepareDirs(ok)
    \/ \E outcome \in BundleOutcomes : BuildBundle(outcome)
    \/ \E isValid \in BOOLEAN : ValidateBundle(isValid)
    \/ \E ok \in BOOLEAN : CopyAdditionalAssets(ok)
    \/ \E ok \in BOOLEAN : AnalyzeMetroAssets(ok)
    \/ \E readable \in BOOLEAN, bundleContent \in BundleContents :
            VerifyAssetConsistency(readable, bundleContent)
    \/ \E ok \in BOOLEAN : GenerateHotUpdateManifest(ok)
    \/ \E outcome \in ZipOutcomes : CreateZipFile(outcome)
    \/ \E ok \in BOOLEAN : StatZip(ok)
    \/ FinishCommand

Spec == Init /\ [][Next]_vars

HuConfigs ==
    {HuConfig(l, e, sp) : l \in Lists(SupportedPlatforms, 0),
                          e \in BOOLEAN, sp \in BOOLEAN}

InitHU ==
    /\ hu \in {HuState("readJSON", c) : c \in HuConfigs}
    /\ SigIdle /\ CliIdle /\ LibIdle

NextHU ==
    \/ \E ok \in BOOLEAN : HuReadJSON(ok)
    \/ \E outcome \in BundleOutcomes : HuBuildBundle(outcome)
    \/ \E isValid \in BOOLEAN : HuValidateBundle(isValid)
    \/ \E ok \in BOOLEAN : HuCopyAssets(ok)
    \/ \E ok \in BOOLEAN : HuGenerateManifest(ok)
    \/ \E outcome \in PackageOutcomes : HuCreateZipPackage(outcome)
    \/ \E ok \in BOOLEAN : HuCreateCombinedPackage(ok)
    \/ \E ok \in BOOLEAN : HuGeneratePackageManifest(ok)
    \/ \E ok \in BOOLEAN : HuGenerateBuildSummary(ok)

SpecHU == InitHU /\ [][NextHU]_vars

----------------------------------------------------------------------------
(* PackageManager.createZipPackage: the archive stream and the directory    *)
(* walk run concurrently inside one promise body                            *)

PkgFrame == UNCHANGED <<sigVars, cliVars, hu, bb>>

\* a promise settles once: resolve and reject after that do nothing
Resolve(p, value) ==
    IF p.promise = "pending"
    THEN [p EXCEPT !.promise = "resolved", !.value = value] ELSE p
Reject(p, message) ==
    IF p.promise = "pending"
    THEN [p EXCEPT !.promise = "rejected", !.value = Rejection(message)] ELSE p

\* createZipPackage 40-109: ensureDir, then the promise body runs to its
\* end: streams created, listeners set, the walk started, finalize called
PkgEnsureDir(ok) ==
    /\ pkg.pc = "called"
    /\ pkg' = IF ok
              THEN [pkg EXCEPT !.pc = "streaming", !.archive = "running",
                               !.walk = "readdir"]
              ELSE Reject([pkg EXCEPT !.pc = "settled"], "EACCES: mkdir")
    /\ PkgFrame

\* output.on("close") 64-82: resolves with the locals as they are now
OutputClose ==
    /\ pkg.pc = "streaming" /\ pkg.archive = "running"
    /\ pkg' = Resolve([pkg EXCEPT !.archive = "closed"], PackageInfo(pkg.local))
    /\ PkgFrame

\* archive.on("warning") 84-90
ArchiveWarning(code) ==
    /\ pkg.pc = "streaming" /\ pkg.archive = "running" /\ pkg.warnings = 0
    /\ pkg' = IF code = "ENOENT"
              THEN [pkg EXCEPT !.warnings = 1]
              ELSE Reject([pkg EXCEPT !.warnings = 1], code)
    /\ PkgFrame

\* archive.on("error") 92-94
ArchiveError ==
    /\ pkg.pc = "streaming" /\ pkg.archive = "running"
    /\ pkg' = Reject([pkg EXCEPT !.archive = "failed"], "archive error")
    /\ PkgFrame

\* the write stream has no 'error' listener (58-96): an error of the output
\* file is an uncaught exception
OutputError ==
    /\ pkg.pc = "streaming" /\ pkg.archive = "running"
    /\ pkg' = [pkg EXCEPT !.pc = "crashed", !.archive = "failed"]
    /\ PkgFrame

\* the promise of countPackageContents rejects.  Its .then has no rejection
\* handler and nothing awaits it (102-108): the rejection is unhandled, which
\* the runtime either reports and goes on, or turns into an uncaught
\* exception
WalkRejected(p, fatal) ==
    [p EXCEPT !.walk = "rejected", !.unhandled = TRUE,
              !.pc = IF fatal THEN "crashed" ELSE p.pc]

\* countPackageContents 121: readdir
WalkReaddir(ok, fatal) ==
    /\ pkg.pc = "streaming" /\ pkg.walk = "readdir"
    /\ pkg' = IF ok THEN [pkg EXCEPT !.walk = "files", !.widx = 1]
              ELSE WalkRejected(pkg, fatal)
    /\ PkgFrame

\* countPackageContents 123-136: stat of the next entry, and readJSON when
\* it is manifest.json
WalkFile(statOk, fatal) ==
    /\ pkg.pc = "streaming" /\ pkg.walk = "files" /\ pkg.widx <= Len(pkg.dir)
    /\ LET f == pkg.dir[pkg.widx]
       IN  pkg' = IF statOk /\ ~(f.isFile /\ readJSONThrows(f))
                  THEN [pkg EXCEPT !.w = countFile(pkg.w, f), !.widx = pkg.widx + 1]
                  ELSE WalkRejected(pkg, fatal)
    /\ PkgFrame

\* countPackageContents 138 returns and the .then callback 103-107 assigns
\* the promise body's locals
WalkThen ==
    /\ pkg.pc = "streaming" /\ pkg.walk = "files" /\ pkg.widx > Len(pkg.dir)
    /\ pkg' = [pkg EXCEPT !.walk = "assigned", !.local = pkg.w]
    /\ PkgFrame

\* the call is over: the promise is settled and nothing is left to run
PkgSettle ==
    /\ pkg.pc = "streaming" /\ pkg.promise # "pending"
    /\ pkg.archive # "running" /\ pkg.walk \in {"assigned", "rejected"}
    /\ pkg' = [pkg EXCEPT !.pc = "settled"]
    /\ PkgFrame

InitPkg ==
    /\ pkg \in {PkgState("called", d) : d \in SourceDirs}
    /\ bb = BbNone
    /\ SigIdle /\ CliIdle /\ HuIdle

NextPkg ==
    \/ \E ok \in BOOLEAN : PkgEnsureDir(ok)
    \/ OutputClose
    \/ \E code \in {"ENOENT", "EMFILE"} : ArchiveWarning(code)
    \/ ArchiveError
    \/ OutputError
    \/ \E ok \in BOOLEAN, fatal \in BOOLEAN : WalkReaddir(ok, fatal)
    \/ \E statOk \in BOOLEAN, fatal \in BOOLEAN : WalkFile(statOk, fatal)
    \/ WalkThen
    \/ PkgSettle

SpecPkg == InitPkg /\ [][NextPkg]_vars

----------------------------------------------------------------------------
(* PackageManager.generatePackageManifest applied to a list of packages *)

\* generatePackageManifest 239-267: the index is built and written
GeneratePackageManifest(ok) ==
    /\ pkg.pc = "generatePackageManifest"
    /\ pkg' = IF ok
              THEN [pkg EXCEPT !.pc = "written",
                               !.index = <<generatePackageManifest(pkg.packages)>>]
              ELSE [pkg EXCEPT !.pc = "rejected"]
    /\ PkgFrame

InitIdx ==
    /\ pkg \in {IdxState("generatePackageManifest", l) : l \in PackageLists}
    /\ bb = BbNone
    /\ SigIdle /\ CliIdle /\ HuIdle

NextIdx == \E ok \in BOOLEAN : GeneratePackageManifest(ok)

SpecIdx == InitIdx /\ [][NextIdx]_vars

----------------------------------------------------------------------------
(* BundleBuilder: copyAssets, then generateManifest with its result *)

BbFrame == UNCHANGED <<sigVars, cliVars, hu, pkg>>

\* an await that rejects inside copyAssets or generateManifest, outside any
\* try block: the method's promise rejects
BbThrow(b, message) == [b EXCEPT !.pc = "rejected", !.error = message]

\* copyAssets 361-386: one turn of the loop.  ensureDir and copy, stat, then
\* calculateSHA256 for a file (235-252, which rejects on a stream error);
\* none of the awaits is inside a try block
BbCopyFile(copyOk, statOk, hashOk) ==
    /\ bb.pc = "copyAssets" /\ bb.fidx <= Len(bb.files)
    /\ LET file == bb.files[bb.fidx]
       IN  bb' =
            IF ~copyOk THEN BbThrow(bb, "EACCES: copy")
            ELSE IF ~statOk THEN BbThrow(bb, "ENOENT: stat")
            ELSE IF file.isFile /\ ~hashOk
            THEN BbThrow([bb EXCEPT !.hashFailed = bb.hashFailed \cup {bb.fidx}],
                         "EIO: read")
            ELSE [bb EXCEPT
                    !.copiedAssets = Append(bb.copiedAssets,
                        CopiedAsset(file, IF file.isFile THEN SHA256Hex(file.name)
                                          ELSE <<>>)),
                    !.fidx = bb.fidx + 1]
    /\ BbFrame

\* copyAssets 389-390 returns the records
BbCopyReturn ==
    /\ bb.pc = "copyAssets" /\ bb.fidx > Len(bb.files)
    /\ bb' = [bb EXCEPT !.pc = "generateManifest"]
    /\ BbFrame

\* generateManifest 393-428: stat of the bundle, its hash inside a try whose
\* catch only logs (bundleSHA256 stays ""), require of package.json for the
\* version, writeJSON
BbGenerateManifest(statOk, hashOk, packageOk, writeOk) ==
    /\ bb.pc = "generateManifest"
    /\ LET bundleSHA256 == IF hashOk THEN calculateSHA256WithPrefix(S("bundle"))
                           ELSE <<>>
       IN  bb' =
            IF ~statOk THEN BbThrow(bb, "ENOENT: stat bundle")
            ELSE IF ~packageOk THEN BbThrow(bb, "Cannot find module package.json")
            ELSE IF ~writeOk THEN BbThrow(bb, "ENOSPC: write manifest.json")
            ELSE [bb EXCEPT !.pc = "returned",
                    !.manifest = generateManifest(bb.platform, bundleSHA256,
                                                  bb.copiedAssets)]
    /\ BbFrame

InitBB ==
    /\ bb \in {BbState("copyAssets", platform, files) :
                platform \in SupportedPlatforms, files \in GlobResults}
    /\ pkg = PkgNone
    /\ SigIdle /\ CliIdle /\ HuIdle

NextBB ==
    \/ \E copyOk \in BOOLEAN, statOk \in BOOLEAN, hashOk \in BOOLEAN :
            BbCopyFile(copyOk, statOk, hashOk)
    \/ BbCopyReturn
    \/ \E statOk \in BOOLEAN, hashOk \in BOOLEAN, packageOk \in BOOLEAN,
            writeOk \in BOOLEAN :
            BbGenerateManifest(statOk, hashOk, packageOk, writeOk)

SpecBB == InitBB /\ [][NextBB]_vars

----------------------------------------------------------------------------
(* The asset steps of buildPlatform applied to an asset directory and a     *)
(* bundle text: analyzeMetroAssets, verifyAssetConsistency and the asset    *)
(* list of generateHotUpdateManifest                                        *)

AssetsState(pcv, platform, assetsDir, statements) ==
    [pc |-> pcv, platform |-> platform, assetsDir |-> assetsDir,
     statements |-> statements, metroAssets |-> <<>>,
     verification |-> [valid |-> TRUE, warnings |-> {}],
     manifest |-> Null, error |-> ""]

\* what the bundler may have left in the asset directory
AssetDirEntries ==
    <<AssetDirEntry("drawable-mdpi", <<T("icon"), T("_a1b2"), T(".png")>>, TRUE),
      AssetDirEntry("drawable-xhdpi", <<T("icon"), T("_a1b2"), T(".png")>>, TRUE),
      AssetDirEntry("raw", <<T("logo"), T(".png")>>, TRUE),
      AssetDirEntry("", <<T("splash"), T(".png")>>, TRUE)>>
AssetDirs ==
    {SelectSeq(AssetDirEntries, LAMBDA e : e \in K) :
        K \in SUBSET {AssetDirEntries[i] : i \in DOMAIN AssetDirEntries}}
\* the configuration of these builds
AssetsConfig == [version |-> Str(S("1.0.0")), minify |-> Bool(TRUE)]

\* buildPlatform 110-117: no additional assets, metroAssets from the asset
\* directory
AssetsAnalyze(ok) ==
    /\ bb.pc = "analyzeMetroAssets"
    /\ bb' = IF ok
             THEN [bb EXCEPT !.pc = "verifyAssetConsistency",
                             !.metroAssets = analyzeMetroAssets(bb.assetsDir)]
             ELSE [bb EXCEPT !.pc = "failed", !.error = "EACCES: scandir"]
    /\ BbFrame

\* buildPlatform 120-129: verifyAssetConsistency 309-360 reads the bundle
\* and scans the asset directory again
AssetsVerify(readable) ==
    /\ bb.pc = "verifyAssetConsistency"
    /\ bb' = IF readable
             THEN [bb EXCEPT !.pc = "generateHotUpdateManifest",
                     !.verification =
                        verifyAssetConsistency(Flat(bb.statements),
                                               analyzeMetroAssets(bb.assetsDir))]
             ELSE [bb EXCEPT !.pc = "failed", !.error = "EACCES: open bundle"]
    /\ BbFrame

\* buildPlatform 132-137
AssetsManifest(ok) ==
    /\ bb.pc = "generateHotUpdateManifest"
    /\ bb' = IF ok
             THEN [bb EXCEPT !.pc = "written",
                     !.manifest = generateHotUpdateManifest(bb.platform,
                                        AssetsConfig, bb.metroAssets)]
             ELSE [bb EXCEPT !.pc = "failed", !.error = "ENOSPC: write manifest.json"]
    /\ BbFrame

InitAssets ==
    /\ bb \in {AssetsState("analyzeMetroAssets", platform, dir, l) :
                platform \in SupportedPlatforms, dir \in AssetDirs,
                l \in StatementLists}
    /\ pkg = PkgNone
    /\ SigIdle /\ CliIdle /\ HuIdle

NextAssets ==
    \/ \E ok \in BOOLEAN : AssetsAnalyze(ok)
    \/ \E readable \in BOOLEAN : AssetsVerify(readable)
    \/ \E ok \in BOOLEAN : AssetsManifest(ok)

SpecAssets == InitAssets /\ [][NextAssets]_vars

----------------------------------------------------------------------------
(* Claims about the signature subsystem (checked under SpecSig) *)

\* The serialization the interface describes: every member of every object,
\* keys sorted at every level.
RECURSIVE FullCanonical(_)
FullCanonical(v) ==
    CASE v.t = "str" -> S("\"") \o v.s \o S("\"")
      [] v.t = "num" -> v.s
      [] v.t = "arr" ->
            S("[") \o JoinComma([i \in DOMAIN v.kids |-> FullCanonical(v.kids[i].v)])
            \o S("]")
      [] v.t = "obj" ->
            LET ks == sort(ObjectKeys(v))
            IN  S("{") \o JoinComma([i \in DOMAIN ks |->
                          S("\"") \o S(ks[i]) \o S("\"") \o S(":")
                          \o FullCanonical(Get(v, ks[i]))])
                \o S("}")
      [] OTHER -> S("null")

\* C2: once a manifest is signed, changing the value of any of its fields
\* (top level, inside an assets[] entry, inside metadata) makes
\* verifyManifest return isValid = false.
TamperDetected ==
    (sigOp.op = "verifyManifest" /\ sigOp.input \in TamperTargets)
        => ~sigOp.r.isValid

\* C3: the canonical signing input built by signManifest holds every key and
\* value of the manifest except the three signature fields, at every
\* nesting level, keys sorted at each level.
CanonicalKeepsEveryField ==
    (sigOp.op = "signManifest" /\ ~sigOp.r.threw)
        => canonicalManifest(manifestFile.m)
              = FullCanonical(stripSignature(manifestFile.m))

\* C4: signData followed by verifySignature with the matching public key
\* gives isValid = true, and verifyManifest accepts a manifest that
\* signManifest wrote and nobody changed, with the embedded public key and
\* with the matching external public key file.
RoundTrip ==
    /\ (sigOp.op = "signThenVerify" /\ sigOp.input = "") => sigOp.r.isValid
    /\ (sigOp.op = "verifyManifest" /\ signedBy # "" /\ sigOp.input = ""
            /\ sigOp.key \in {"embedded", signedBy}) => sigOp.r.isValid
RoundTripWitness ==
    /\ sigOp.op = "verifyManifest" /\ signedBy = "2" /\ sigOp.input = ""
    /\ sigOp.key = signedBy /\ sigOp.r.isValid
    /\ Get(manifestFile.m, "assets").kids # <<>>

\* The inputs C5 lists: a malformed signature string, an unreadable or
\* non-JSON manifest, a manifest without signature or without any public
\* key, a malformed public key.
BadVerifierInput ==
    \/ sigOp.input \in BadSignatureClasses
    \/ sigOp.input \in {"unreadable", "notjson", "null", "nosignature", "unsigned"}
    \/ sigOp.key = "bad"
    \/ sigOp.input \in {"nopublickey", "badpublickey"} /\ sigOp.key = "embedded"
VerifierRan == sigOp.op \in {"verifyManifest", "verifySignature"}
InvalidFormatError == "Invalid signature format. Expected 'ALGORITHM:SIGNATURE'"
MissingSeparatorIsInvalidFormat ==
    (sigOp.op = "verifySignature" /\ sigOp.input = "nocolon")
        => sigOp.r.error = InvalidFormatError

SignedBytes(signature) ==
    LET parts == splitLimit(signature.s, ":", 2)
        bytes == fromBase64(parts[2])
    IN  SubSeq(bytes, 3, Len(bytes))
SignatureFields == {"signature", "publicKey", "signatureTimestamp"}

\* C15: after any sequence of signManifest calls on one manifest file (a
\* signed manifest signed again, with the same or another key), the stored
\* signature is over the canonical form of the manifest without signature,
\* publicKey and signatureTimestamp, no earlier signature field is part of
\* the signed bytes, and verifyManifest accepts the latest signature.
ResignCoversStrippedManifest ==
    (sigOp.op = "signManifest" /\ ~sigOp.r.threw) =>
        LET signed == SignedBytes(Get(manifestFile.m, "signature"))
        IN  /\ signed = Bytes(canonicalManifest(stripSignature(manifestFile.m)))
            /\ \A i \in DOMAIN signed : signed[i] \notin SignatureFields
            /\ verifyManifest(manifestFile, keyStore, <<>>).isValid
            /\ verifyManifest(manifestFile, keyStore, PublicPath(signedBy)).isValid
ResignCoversStrippedManifestWitness ==
    /\ sigOp.op = "signManifest" /\ ~sigOp.r.threw
    /\ sigOp.input # "" /\ sigOp.input # signedBy
    /\ Get(manifestFile.m, "assets").kids # <<>>

\* C16: two manifests with the same field values and another key insertion
\* order, at the top level or inside nested objects, have the same canonical
\* bytes, so the signature made over one verifies against the other.
CanonicalizationStable ==
    /\ (manifestFile.exists /\ manifestFile.json /\ manifestFile.m.t = "obj") =>
            canonicalManifest(Reordered(manifestFile.m))
                = canonicalManifest(manifestFile.m)
    /\ (sigOp.op = "verifyManifest" /\ sigOp.input = "order"
            /\ sigOp.key \in {"embedded", signedBy}) => sigOp.r.isValid
CanonicalizationStableWitness ==
    /\ sigOp.op = "verifyManifest" /\ sigOp.input = "order"
    /\ sigOp.key = "embedded" /\ sigOp.r.isValid
    /\ ObjectKeys(manifestFile.m)[1] = "signatureTimestamp"
    /\ Get(manifestFile.m, "assets").kids # <<>>


-----------------------------------------------------------------------------
(* Claims about the builder and the commands (checked under Spec) *)

\* C1: in buildAllPlatforms a failure at any stage of one platform becomes
\* that platform's result with success = false and an error message, every
\* later platform is still built, and the call does not end because of it.
StageFailed(i) == faults[i] # ""
FailureIsolation ==
    /\ pc # "crashed"
    /\ \A i \in DOMAIN faults :
            StageFailed(i) => (~results[i].success /\ results[i].error # "")
    /\ pc = "returned" => Len(results) = Len(platforms)

\* C6: every command that runs the builder exits with a non-zero status when
\* a returned platform result has success = false, and with 0 only when every
\* result is a success.
ExitReflectsFailures ==
    (pc = "exited" /\ cmd \in BuildCommands) =>
        /\ Len(failedBuilds(results)) > 0 => exitCode # 0
        /\ exitCode = 0 => \A i \in DOMAIN results : results[i].success

\* C7: when buildAllPlatforms returns, the result list has exactly one entry
\* for each requested platform, in request order, whatever succeeded or
\* failed.
OneResultPerPlatform ==
    pc = "returned" =>
        /\ Len(results) = Len(platforms)
        /\ \A i \in DOMAIN platforms : results[i].platform = platforms[i]
OneResultPerPlatformWitness ==
    /\ pc = "returned" /\ Len(platforms) >= 2
    /\ \E i, j \in DOMAIN results : results[i].success /\ ~results[j].success

\* C9: build-config --dry-run and config validate, on every path, write
\* nothing to the filesystem and never run the bundler, the packaging, key
\* generation or signing.
ValidationOnlyRun ==
    cmd = "config-validate" \/ (cmd = "build-config" /\ opts.dryRun)
DryRunPurity ==
    ValidationOnlyRun =>
        /\ fsWrites = {} /\ built = <<>> /\ artifacts = {} /\ results = <<>>
        /\ SigIdle
DryRunPurityWitness ==
    /\ cmd = "build-config" /\ opts.dryRun
    /\ pc = "exited" /\ exitCode = 0 /\ loadError = NoError
    /\ Len(mergeWithDefaults(env).platforms) >= 1

\* C10: loadConfig fails, naming the offending value, for a missing config
\* file, a nonexistent project path, a project without package.json or
\* without a React Native dependency, a platform outside {ios, android}, a
\* build.version that is not valid semver and an enabled signature whose
\* algorithm is outside {RSA-SHA256, ECDSA-SHA256}; build-config then exits
\* with status 1 having run no bundler and created no directory.
OffendingValues(disk) ==
    (IF ~disk.configExists THEN {ConfigFile} ELSE {})
    \cup (IF ~disk.projectExists \/ ~disk.packageJson
             \/ (~disk.reactNative /\ ~disk.reactNativeCli)
          THEN {ProjectPath} ELSE {})
    \cup (IF disk.platformsSet
          THEN {disk.platforms[i] : i \in DOMAIN disk.platforms} \ SupportedPlatforms
          ELSE {})
    \cup (IF disk.version.t # "undefined" /\ ~semverValid(disk.version)
          THEN {Shown(disk.version)} ELSE {})
    \cup (IF disk.signature.enabled /\ disk.signature.algorithm.t # "undefined"
             /\ disk.signature.algorithm.s \notin Algorithms
          THEN {Shown(disk.signature.algorithm)} ELSE {})
InvalidConfigRejected ==
    (cmd = "build-config" /\ pc # "start" /\ OffendingValues(env) # {}) =>
        /\ loadError.kind # "" /\ loadError.value \in OffendingValues(env)
        /\ pc = "exited" /\ exitCode = 1
        /\ fsWrites = {} /\ built = <<>>

-----------------------------------------------------------------------------
(* Claim about buildHotUpdate (checked under SpecHU) *)

\* C8: in buildHotUpdate, when the build of one platform fails at any step,
\* the remaining platforms of config.platforms are still built.
HotUpdateFailureIsolation ==
    (hu.pc \in {"resolved", "rejected"} /\ hu.error # "ENOENT: config") =>
        hu.attempted = hu.config.platforms

----------------------------------------------------------------------------
(* Configuration handed to the builder, and what the builder writes *)

\* the configuration came out of loadConfig + toBuildConfig (build-config) or
\* out of the flags (build-ci) and was handed to HotUpdateBuilder
HandedToBuilder ==
    cmd \in {"build-config", "build-ci"} /\ buildConfig # NoBuildConfig

\* C11: after loadConfig and toBuildConfig an enabled signature policy never
\* has autoGenerate = false together with a private key path that is absent
\* or names no existing file: auto-generation has been forced in that case.
SignaturePolicyHasKey ==
    (cmd = "build-config" /\ buildConfig # NoBuildConfig
            /\ buildConfig.signature.enabled) =>
        ~ /\ Falsy(buildConfig.signature.autoGenerate)
          /\ \/ Falsy(buildConfig.signature.privateKeyPath)
             \/ ~env.keyExists

\* C12: for every platform that succeeded, the manifest.json written holds
\* signature, publicKey and signatureTimestamp when the build was run with
\* signing enabled, and none of the three when it was not.
SignedBuildSignsManifests ==
    \A j \in DOMAIN manifests :
        LET k == manifests[j].index
            keys == KeySet(manifests[j].manifest)
        IN  (k \in DOMAIN results /\ results[k].success) =>
                IF buildConfig.signature.enabled
                THEN SignatureFields \subseteq keys
                ELSE SignatureFields \cap keys = {}

\* C13: every BuildConfig handed to the builder by build-config or build-ci
\* has a version that is a valid semantic version, whether it was configured,
\* given by the --version flag or taken from package.json.
VersionIsSemver ==
    HandedToBuilder => semverValid(buildConfig.version)

\* C14: a configuration accepted by loadConfig, and a platform list accepted
\* by build-ci, has a non-empty platform list within {ios, android}; no
\* accepted configuration leads to a run without results that exits with 0.
AcceptedPlatformsNonEmpty ==
    /\ (cmd \in ConfigCommands /\ pc # "start" /\ loadError = NoError) =>
            /\ loadConfig(env).config.platforms # <<>>
            /\ FirstInvalidPlatform(loadConfig(env).config.platforms) = 0
    /\ HandedToBuilder =>
            /\ platforms # <<>>
            /\ \A i \in DOMAIN platforms : platforms[i] \in SupportedPlatforms
            /\ ~(pc = "exited" /\ exitCode = 0 /\ results = <<>>)

\* C20: a platform whose asset check returned warnings is never failed by the
\* check: if it failed, it failed in a later stage (or the check could not
\* read the bundle and returned nothing), and without such a failure it
\* succeeds.
AssetCheckNeverFails ==
    \A i \in DOMAIN results :
        warned[i] =>
            /\ faults[i] # "verifyAssetConsistency"
            /\ faults[i] = "" => results[i].success

AssetCheckNeverFailsWitness ==
    \E i \in DOMAIN results :
        warned[i] /\ results[i].success /\ faults[i] = ""

----------------------------------------------------------------------------
(* Claims about PackageManager (checked under SpecPkg) *)

\* C17: in every interleaving of the output stream's close and the walk, once
\* the promise of createZipPackage is resolved and the walk has completed,
\* the PackageInfo carries what the walk computed for the directory (never
\* the initial 0, 0, null in its place); when the walk has failed, the
\* promise is not resolved: the failure is its rejection.
WalkResultInPackageInfo ==
    /\ (pkg.promise = "resolved" /\ pkg.walk = "assigned") =>
            pkg.value = PackageInfo(countPackageContents(pkg.dir))
    /\ (pkg.walk = "rejected" /\ pkg.pc \in {"settled", "crashed"}) =>
            pkg.promise = "rejected"

----------------------------------------------------------------------------
(* Claims about BundleBuilder (checked under SpecBB) and the manifests *)

\* C18: a failure to hash one asset does not abort copyAssets: the call is
\* not rejected because of it, and when it returns, its records are those of
\* all the other entries, the failed one omitted.
HashFailureTolerated ==
    bb.hashFailed # {} =>
        /\ bb.pc # "rejected"
        /\ bb.pc \in {"generateManifest", "returned"} =>
                [i \in DOMAIN bb.copiedAssets |-> bb.copiedAssets[i].name]
                    = [i \in DOMAIN bb.copiedAssets |->
                        SelectSeq(bb.files,
                            LAMBDA f : \A k \in bb.hashFailed : bb.files[k] # f)[i].name]

\* a hex digest, and a digest with the "sha256:" prefix
IsHexDigest(v) == v.t = "str" /\ Len(v.s) = 1 /\ v.s[1].c = "sha256hex"
IsPrefixedDigest(v) ==
    v.t = "str" /\ Len(v.s) = 2 /\ v.s[1] = T("sha256:") /\ v.s[2].c = "sha256hex"
HasContentHashes(m) ==
    /\ IsPrefixedDigest(Get(m, "bundleSHA256"))
    /\ \A i \in DOMAIN Get(m, "assets").kids :
            IsHexDigest(Get(Get(m, "assets").kids[i].v, "sha256"))

\* C19: every manifest.json written, by the commands' builder or by
\* BundleBuilder.generateManifest, has bundleSHA256 = "sha256:" + the hex
\* digest of the bundle, and a non-empty hex sha256 in every assets entry.
ManifestHasContentHashes ==
    /\ \A j \in DOMAIN manifests : HasContentHashes(manifests[j].manifest)
    /\ bb.manifest # Null => HasContentHashes(bb.manifest)

----------------------------------------------------------------------------
(* Claims about the build flags and the stages (checked under Spec) *)

\* minification was disabled for this build: --no-minify for build-ci,
\* build.minify = false in the configuration file for build-config
MinifyDisabled ==
    \/ cmd = "build-ci" /\ opts.noMinifyFlag
    \/ cmd = "build-config" /\ env.configExists /\ env.minify = Bool(FALSE)

\* C21: when minification is disabled for a build, every bundler run of that
\* build is given minify = false.
MinifyDisabledReachesBundler ==
    MinifyDisabled =>
        \A i \in DOMAIN spawned : spawned[i].minify = Bool(FALSE)

----------------------------------------------------------------------------
(* Claims about the package index (checked under SpecIdx and SpecHU) *)

\* the arithmetic sum of a list of numbers
RECURSIVE SumOf(_)
SumOf(numbers) ==
    IF numbers = <<>> THEN 0 ELSE Head(numbers) + SumOf(Tail(numbers))

\* C22: the index written by generatePackageManifest has totalPackages = the
\* number of input packages, summary.totalSize = the sum of their bundleSize
\* and summary.totalAssets = the sum of their assetCount, for every list of
\* packages, the empty one included.
IndexTotals ==
    pkg.pc = "written" =>
        LET index == pkg.index[1]
            packages == pkg.packages
        IN  /\ index.totalPackages = Len(packages)
            /\ index.summary.totalSize =
                    SumOf([i \in DOMAIN packages |-> packages[i].bundleSize])
            /\ index.summary.totalAssets =
                    SumOf([i \in DOMAIN packages |-> packages[i].assetCount])

IndexTotalsWitness ==
    /\ pkg.pc = "written" /\ Len(pkg.packages) = MaxPackages
    /\ pkg.index[1].summary.totalSize > 7
    /\ pkg.index[1].summary.totalAssets > 2

----------------------------------------------------------------------------
(* More claims about the signature subsystem (checked under SpecSig) *)

\* a text holds private key material
HoldsPrivateKey(s) ==
    \E i \in DOMAIN s : s[i].c = "pem" /\ s[i].p # <<>> /\ s[i].p[1] = "PRIVATE KEY"

\* C23: the private key is in no console line of key generation and signing
\* and in no member of the stored manifest; the only file that holds it is
\* the key pair's private.pem.
PrivateKeyStaysInItsFile ==
    /\ \A i \in DOMAIN sigOp.out : ~HoldsPrivateKey(sigOp.out[i])
    /\ manifestFile.m.t = "obj" =>
            \A i \in DOMAIN manifestFile.m.kids :
                manifestFile.m.kids[i].v.t = "str"
                    => ~HoldsPrivateKey(manifestFile.m.kids[i].v.s)
    /\ \A path \in DOMAIN keyStore :
            HoldsPrivateKey(keyStore[path]) => path[1] = "private.pem"

PrivateKeyStaysInItsFileWitness ==
    /\ sigOp.op = "signManifest" /\ ~sigOp.r.threw /\ Len(sigOp.out) > 1
    /\ HasKey(manifestFile.m, "publicKey")
    /\ \E path \in DOMAIN keyStore : HoldsPrivateKey(keyStore[path])

----------------------------------------------------------------------------
(* Claims about the stages of buildPlatform (checked under Spec) *)

\* the stage a trail entry stands for
StageOf(entry) ==
    CASE entry = "verifyAssetConsistency:warnings" -> "verifyAssetConsistency"
      [] entry = "createZipFile:lost" -> "createZipFile"
      [] OTHER -> entry
\* the position of a stage in buildPlatform (0 for none)
StageIndex(stage) ==
    IF \E k \in DOMAIN Stages : Stages[k] = stage
    THEN CHOOSE k \in DOMAIN Stages : Stages[k] = stage ELSE 0
ManifestWrittenFor(i) == \E j \in DOMAIN manifests : manifests[j].index = i

\* C24: within buildPlatform the stages complete in their order (bundler,
\* validation, asset collection, consistency check, manifest, archive), the
\* archive is created only after manifest.json was written, and a platform
\* that failed in a stage has nothing from the stages after it.
StagesInSequence ==
    /\ \A i \in DOMAIN trail : StageOf(trail[i]) = Stages[i]
    /\ (\E i \in DOMAIN trail : StageOf(trail[i]) = "createZipFile")
            => ManifestWrittenFor(pidx)
    /\ \A i \in DOMAIN faults :
            (faults[i] # "" /\ StageIndex(faults[i])
                                <= StageIndex("generateHotUpdateManifest"))
                => ~ManifestWrittenFor(i)

StagesInSequenceWitness ==
    /\ \E i \in DOMAIN trail : trail[i] = "createZipFile"
    /\ ManifestWrittenFor(pidx)
    /\ \E i \in DOMAIN faults : faults[i] = "validateBundle"

\* C28: a manifest whose content, signature and embedded public key were
\* all replaced with those of another key pair is not valid when it is
\* verified against the external public key of the original signer.
ExternalKeyDecides ==
    (sigOp.op = "verifyManifest" /\ sigOp.input = "resigned"
        /\ sigOp.key = signedBy) => ~sigOp.r.isValid

ExternalKeyDecidesWitness ==
    /\ sigOp.op = "verifyManifest" /\ sigOp.input = "resigned"
    /\ sigOp.key = signedBy /\ ~sigOp.r.isValid
    /\ KeyId(AsText(Get(manifestFile.m, "publicKey"))) # signedBy

\* C29: a valid verification reports the signer's algorithm: when the
\* label of an RSA-SHA256 signature was replaced by another one ending in
\* -SHA256, the verification is not valid, and a valid one reports
\* RSA-SHA256.
AlgorithmLabelBound ==
    (sigOp.op = "verifyManifest" /\ sigOp.input = "relabelled"
        /\ sigOp.r.isValid) => sigOp.r.algorithm = RSA_SHA256

\* every package of a platform carries the counts of the platform's
\* directory (the walk of createZipPackage ended before the stream closed)
PackagesCounted ==
    \A k \in DOMAIN hu.builtPackages :
        LET q == hu.builtPackages[k]
        IN  q.platform # "combined" =>
                q = PackageOf(q.platform, PlatformContents(q.platform))

\* C30: the package index written by buildHotUpdate counts the bundle and
\* the assets of each built platform exactly once, also when a combined
\* package was made (shown for builds whose packages carry their counts).
IndexCountsEachPlatformOnce ==
    (hu.index # <<>> /\ PackagesCounted) =>
        /\ hu.index[1].summary.totalSize
                = combinedCounts(hu.config.platforms).bundle
        /\ hu.index[1].summary.totalAssets
                = combinedCounts(hu.config.platforms).assets

\* C27: every BuildResult is consistent.  A successful one has its bundle
\* written by a bundler that exited with code 0, its manifest.json written,
\* and a zipPath that names the archive of the platform, which exists with
\* its stream closed and has the reported size; a failed one has an empty
\* zipPath, size 0 and a non-empty error.
ResultsConsistent ==
    \A i \in DOMAIN results :
        LET r == results[i]
        IN  IF r.success
            THEN /\ BundlePath(r.platform) \in fsWrites
                 /\ \E k \in DOMAIN spawned : spawned[k].platform = r.platform
                 /\ ManifestWrittenFor(i)
                 /\ r.zipPath = ZipPath(r.platform)
                 /\ r.zipPath \in fsWrites /\ r.platform \in artifacts
                 /\ r.size > 0
            ELSE r.zipPath = NoPath /\ r.size = 0 /\ r.error # ""

----------------------------------------------------------------------------
(* Claims about the asset catalog and the asset check (checked under        *)
(* SpecAssets)                                                              *)

\* the records of the written manifest's asset list with the name and scales
RecordsOf(manifest, name, scales) ==
    LET assets == Get(manifest, "assets").kids
    IN  {k \in DOMAIN assets :
            /\ Get(assets[k].v, "name") = Str(name)
            /\ HasKey(assets[k].v, "scales")
            /\ Get(assets[k].v, "scales") = scales}

\* C25: for the flat-asset platform ios, every file directly in the asset
\* directory has exactly one record with scales = [1] in the asset list of
\* the written manifest.
FlatAssetsCataloged ==
    (bb.pc = "written" /\ bb.platform = "ios") =>
        \A i \in DOMAIN bb.assetsDir :
            (bb.assetsDir[i].dir = "" /\ bb.assetsDir[i].isFile) =>
                Cardinality(RecordsOf(bb.manifest, bb.assetsDir[i].name,
                                      Arr(<<KV("", Num(S("1")))>>))) = 1

\* a statement of the bundle that is a static require or import
StaticStatements(statements) ==
    {i \in DOMAIN statements :
        \E dir \in {"img"}, name \in {"icon", "logo"} :
            statements[i] \in {Require(AssetRef(dir, name), ")"),
                               ImportFrom(AssetRef(dir, name), ";")}}
\* the path a statement names: what is between its quotes
PathOf(statement) ==
    LET q == {i \in DOMAIN statement : statement[i] \in Quotes}
        first == CHOOSE i \in q : \A j \in q : i <= j
        last == CHOOSE i \in q : \A j \in q : j <= i
    IN  SubSeq(statement, first + 1, last - 1)

\* C26: every static require('...') or import ... from '...' of an image
\* path in the bundle is warned about exactly when no cataloged asset name
\* contains its base name without the extension.
StaticReferencesChecked ==
    bb.pc \in {"generateHotUpdateManifest", "written"} =>
        \A i \in StaticStatements(bb.statements) :
            LET assetPath == PathOf(bb.statements[i])
            IN  (assetPath \in bb.verification.warnings)
                    <=> ~\E k \in DOMAIN bb.metroAssets :
                            Includes(bb.metroAssets[k].name,
                                     nameWithoutExt(basename(assetPath)))

============================================================================
